---- MODULE Spec2Model ----
(***************************************************************************)
(* Model of the runjob phase execution engine:                             *)
(*   - Phaser (src/runtools/runjob/phaser.py): prime / run / stop driven   *)
(*     by one driver thread and one concurrent stopper thread;             *)
(*   - BasePhase.run (same file): the lifecycle wrapper of one phase, and  *)
(*     the observers of its updates;                                       *)
(*   - SequentialPhase (same file): run() against a concurrent stop();     *)
(*   - ApprovalPhase (src/runtools/runner/coordination.py): run() against  *)
(*     approve(), stop() and the timeout;                                  *)
(*   - ExecutionQueue (same file): peers that share one queue id, each     *)
(*     running its own scheduler loop;                                     *)
(*   - WaitingPhase (same file): run() against the result listeners of its *)
(*     conditions, the timeout and stop();                                 *)
(*   - NoOverlapPhase (same file): runs that share one no_overlap_id and   *)
(*     one cross-process lock;                                             *)
(*   - APIServer (src/runtools/runjob/api.py): handle() of one JSON-RPC    *)
(*     request against register_instance / unregister_instance.            *)
(*   - Phaser.wait_for_transition (phaser.py): a waiter against the run;   *)
(*   - the event dispatchers (src/runtools/runjob/events.py): one event    *)
(*     sent to every listener socket.                                      *)
(* Each subsystem has its own specification over its own variables; the    *)
(* specifications with fairness add the scheduling of the threads.         *)
(***************************************************************************)
EXTENDS Integers, Sequences, FiniteSets, TLC

(***************************************************************************)
(* Bounds                                                                  *)
(***************************************************************************)
\* number of declared phases of the Phaser
NPhases == 2
\* number of prime()/run() calls the driver thread makes
MaxCalls == 3
\* number of stop() calls the stopper thread makes (on the Phaser, on the
\* SequentialPhase, on the ApprovalPhase)
MaxStops == 2
\* number of run() calls made on one BasePhase
MaxPhaseRuns == 2
\* number of peer instances sharing one execution queue
NPeers == 3
\* the queue's max_executions
MaxExecutions == 2
\* number of observers that may be registered on one BasePhase
NObservers == 2
\* number of add_phase_observer() calls made on one BasePhase
MaxAdds == 2
\* number of children of the SequentialPhase
NChildren == 2
\* number of approve() calls made on the ApprovalPhase
MaxApproves == 2
\* number of observable conditions of the WaitingPhase
NConditions == 2
\* number of runs whose NoOverlapPhase has the same no_overlap_id
NOverlapRuns == 3
\* number of job instance objects and of distinct instance ids among them
NInstances == 3
NInstanceIds == 2
\* number of requests the API server handles
MaxRequests == 1
\* number of listener sockets an event dispatcher finds
NListeners == 2
\* number of events handed to the event dispatchers
MaxEvents == 2

(***************************************************************************)
(* Phaser: program constants                                               *)
(***************************************************************************)
\* self._current_phase = None
NoPhase == -1
\* InitPhase.ID = 'init'
InitId == 0
\* TerminalPhase.ID = 'terminal' (an id after every declared phase)
TerminalId == NPhases + 1
\* keys of self._key_to_phase, in declaration order
DeclaredPhases == 1..NPhases

\* TerminationInfo(status, timestamp, failure, error); timestamps are left out
TermInfo(status, failure, error) ==
    [status |-> status, failure |-> failure, error |-> error]
\* the value None of an Optional[TerminationInfo]
NoTermInfo == [status |-> "UNSET", failure |-> FALSE, error |-> FALSE]

\* Phaser._term_info
_term_info(termination_status, failure, error) ==
    TermInfo(termination_status, failure, error)

\* stop_status of a phase: coordination phases first (CANCELLED), the
\* executing phase last (STOPPED); the sentinels as constructed
StopStatusOf(phase) ==
    IF phase = InitId THEN "STOPPED"
    ELSE IF phase = TerminalId THEN "NONE"
    ELSE IF phase = NPhases THEN "STOPPED"
    ELSE "CANCELLED"

\* what phase.run(ctx) may do, as seen by Phaser._run_handle_errors
TerminateStatuses == {"TIMEOUT", "OVERLAP", "FAILED"}
Outcomes ==
    [kind : {"return", "FailedRun", "Exception", "KeyboardInterrupt"},
     status : {"NONE"}, code : {0}]
    \cup [kind : {"TerminateRun"}, status : TerminateStatuses, code : {0}]
    \cup [kind : {"SystemExit"}, status : {"NONE"}, code : {0, 1}]
NoOutcome == [kind |-> "none", status |-> "NONE", code |-> 0]

VARIABLES
    \* Phaser fields guarded by its lock
    lifecycle, started, current_phase, abort, stop_status, termination_info,
    \* calls of the transition hook: (previous_run, current_run, phase_count)
    hookLog,
    \* driver thread: position, loop index, locals of run(), calls made, result
    dpc, idx, term_info, exc, calls, lastOp, ret,
    \* stopper thread: position, stop() calls made
    spc, stops,
    \* phases whose run() was invoked, phases that received stop()
    ran, stopSignalled,
    \* history: what the last phase did, the termination it produced, the
    \* Phaser at each effective stop(), at the last run() call
    lastOutcome, captured, stopSnaps, runCall, primeCalls, stopBeforePrime, loopEnded,
    loopRet

pvars == <<lifecycle, started, current_phase, abort, stop_status, termination_info,
           hookLog, dpc, idx, term_info, exc, calls, lastOp, ret, spc, stops, ran,
           stopSignalled, lastOutcome, captured, stopSnaps, runCall, primeCalls,
           stopBeforePrime, loopEnded, loopRet>>

\* BasePhase: fields, the running thread's position and locals, what run()
\* did to its caller, the updates handed to the observer proxy
VARIABLES
    started_at, termination, bpc, term, raising, bret, bruns, updates, stop_calls,
    \* the observers of self._notification in dispatch order, the stages each
    \* observer object has received, add_phase_observer() calls made
    observers, delivered, adds,
    \* history: what _run did in the current run(), stop() calls at its
    \* start, the last add_phase_observer() call
    lastRun, stopsBefore, lastAdd

bvars == <<started_at, termination, bpc, term, raising, bret, bruns, updates, stop_calls,
           observers, delivered, adds, lastRun, stopsBefore, lastAdd>>

\* ExecutionQueue peers: lifecycle run state of each instance, the phase's
\* fields, the run() thread's position, Phaser.stop() requested, the holder of
\* the queue lock, the locals of _dispatch_next, transition events in flight
VARIABLES
    run_state, qstate, current_wait, state_receiver, qpc, stop_requested,
    locker, queued, next_count, in_flight,
    \* history: the last signal_dispatch() call, its target and what it returned
    signalled,
    \* history: the last _dispatch_next call, its caller, the number of
    \* executing runs it found and the signals it made
    dispatch_call

qvars == <<run_state, qstate, current_wait, state_receiver, qpc, stop_requested,
           locker, queued, next_count, in_flight, signalled, dispatch_call>>

\* SequentialPhase: its fields, the holder of self._stop_lock, the run()
\* thread's position, loop index and the exception leaving _run, the
\* termination of the phase and of its children, what run() did to its caller,
\* the stop() thread's position and calls made
VARIABLES
    seq_stopped, seq_current_child, seq_stop_lock, seq_pc, seq_idx, seq_exc,
    seq_termination, child_termination, seq_ret, seq_spc, seq_stops,
    \* children made current, children whose run() was invoked, children that
    \* received stop()
    children_made, children_run, children_stopped,
    \* history: what each stop() call saw and did, the stop test that raised
    seq_snaps, seq_raised_stopped

svars == <<seq_stopped, seq_current_child, seq_stop_lock, seq_pc, seq_idx, seq_exc,
           seq_termination, child_termination, seq_ret, seq_spc, seq_stops,
           children_made, children_run, children_stopped, seq_snaps, seq_raised_stopped>>

\* ApprovalPhase: the timeout it was built with, the flag of self._event,
\* self._stopped, the run() thread's position and its local 'approved', what
\* run() did to its caller, the stop() thread's position, stop() and
\* approve() calls made
VARIABLES
    ap_timeout, ap_event, ap_stopped, ap_pc, approved, ap_ret, ap_spc, ap_stops, approves,
    \* history: approve() and stop() calls by the time the wait timed out,
    \* self._stopped as the test after the wait read it
    ap_at_timeout, ap_stop_seen

avars == <<ap_timeout, ap_event, ap_stopped, ap_pc, approved, ap_ret, ap_spc, ap_stops, approves,
           ap_at_timeout, ap_stop_seen>>

\* WaitingPhase: the timeout and the number of conditions it was built with,
\* the flag of self._event, self._term_status, the run() thread
VARIABLES
    w_timeout, w_count, w_event, w_term_status, w_pc, w_idx, w_ret,
    \* conditions: result, registered listener, evaluation started, stop() calls
    cond_result, cond_listener, cond_started, cond_stopped,
    \* one _result_observer call per delivered result: position and local 'wait'
    obs_pc, obs_wait,
    \* the thread calling stop()
    w_spc, w_stops,
    \* history: what self._event.wait returned, whether a condition had a
    \* non-success result at that moment, and the state the first stop() found
    w_resolved, w_failed_at_release, w_stop_found

wvars == <<w_timeout, w_count, w_event, w_term_status, w_pc, w_idx, w_ret,
           cond_result, cond_listener, cond_started, cond_stopped, obs_pc, obs_wait,
           w_spc, w_stops, w_resolved, w_failed_at_release, w_stop_found>>

\* NoOverlapPhase
VARIABLES
    \* holder of the lock file noo-<no_overlap_id>.lock (0: free)
    noo_lock,
    \* per run: position in run(), the value of any(...) and how run() ended
    noo_pc, noo_found, noo_ret,
    \* history: the lock holder and the protected runs when a run made its query
    noo_holder_at_check, noo_seen

nvars == <<noo_lock, noo_pc, noo_found, noo_ret, noo_holder_at_check, noo_seen>>

\* APIServer
VARIABLES
    \* self._job_instances: instance id -> registered instance (NoInstance: no key)
    job_instances,
    \* per instance object: stop() calls received and its termination status
    inst_stops, inst_term,
    \* handle(): number of calls, the last request and what was returned or raised
    api_calls, last_req, last_resp,
    \* history of the last handle(): the outcome of validate_params, the instance
    \* method.execute was invoked on, what the phase operation did, the
    \* instance that was registered under the request's instance_id, and the
    \* instances as handle() found them
    validated, executed_on, op_did, registered_then, before,
    \* history: the id that unregister_instance removed last
    last_removed

rvars == <<job_instances, inst_stops, inst_term, api_calls, last_req, last_resp,
           validated, executed_on, op_did, registered_then, before, last_removed>>

\* Phaser.wait_for_transition
VARIABLES
    \* the waiting thread's position, its arguments, the phase that was built
    \* with RunState.NONE, the lifecycle length when the wait began, the result
    t_pc, t_phase_id, t_run_state, t_timeout, t_none_phase, t_len, t_ret,
    \* history: the lifecycle at the call, at the return and how the wait ended
    t_at_call, t_at_return

tvars == <<t_pc, t_phase_id, t_run_state, t_timeout, t_none_phase, t_len, t_ret,
           t_at_call, t_at_return>>

\* Event dispatchers
VARIABLES
    \* observer calls made, what the last one did to its caller, the events
    \* each listener socket received, warnings logged
    ev_calls, ev_ret, ev_received, ev_warnings,
    \* history: the last call and what sending did for each listener
    ev_last

evars == <<ev_calls, ev_ret, ev_received, ev_warnings, ev_last>>

vars == <<pvars, bvars, qvars, svars, avars, wvars, nvars, rvars, tvars, evars>>

\* Lifecycle views
previous_run == IF Len(lifecycle) >= 2 THEN lifecycle[Len(lifecycle) - 1] ELSE NoPhase
current_run == IF Len(lifecycle) >= 1 THEN lifecycle[Len(lifecycle)] ELSE NoPhase
phase_count == Len(lifecycle)

\* Phaser.__init__
PhaserInit ==
    /\ lifecycle = <<>>
    /\ started = FALSE
    /\ current_phase = NoPhase
    /\ abort = FALSE
    /\ stop_status = "NONE"
    /\ termination_info = NoTermInfo
    /\ hookLog = <<>>
    /\ dpc = "idle" /\ idx = 0 /\ term_info = NoTermInfo /\ exc = "None"
    /\ calls = 0 /\ lastOp = "none" /\ ret = "none"
    /\ spc = "idle" /\ stops = 0
    /\ ran = {} /\ stopSignalled = {}
    /\ lastOutcome = [phase |-> NoPhase, outcome |-> NoOutcome]
    /\ captured = NoTermInfo
    /\ stopSnaps = <<>>
    /\ runCall = [n |-> 0, primed |-> FALSE, wasStarted |-> FALSE, lifecycle |-> <<>>, ran |-> {}]
    /\ primeCalls = 0
    /\ stopBeforePrime = FALSE
    /\ loopEnded = FALSE
    /\ loopRet = "none"

\* Phaser._next_phase: the assignments to current_phase and lifecycle
NextPhaseLifecycle(phase) == Append(lifecycle, phase)

_next_phase(phase) ==
    /\ current_phase' = phase
    /\ lifecycle' = NextPhaseLifecycle(phase)

\* Phaser._execute_transition_hook (a hook is installed)
_execute_transition_hook ==
    hookLog' = Append(hookLog, <<previous_run, current_run, phase_count>>)

\* _run_handle_errors with a generic exception classified as FAILED
MutHandleErrorsFailed(outcome) ==
    CASE outcome.kind = "return" ->
           [term |-> NoTermInfo, exc |-> "None"]
      [] outcome.kind = "TerminateRun" ->
           [term |-> _term_info(outcome.status, FALSE, FALSE), exc |-> "None"]
      [] outcome.kind = "FailedRun" ->
           [term |-> _term_info("FAILED", TRUE, FALSE), exc |-> "None"]
      [] outcome.kind = "Exception" ->
           [term |-> _term_info("FAILED", FALSE, TRUE), exc |-> "PhaseCompletionError"]
      [] outcome.kind = "KeyboardInterrupt" ->
           [term |-> _term_info("INTERRUPTED", FALSE, FALSE), exc |-> "KeyboardInterrupt"]
      [] outcome.kind = "SystemExit" ->
           [term |-> _term_info(IF outcome.code = 0 THEN "COMPLETED" ELSE "FAILED", FALSE, FALSE),
            exc |-> "SystemExit"]

\* Phaser._run_handle_errors: (term_info, exc) for what phase.run did
_run_handle_errors(outcome) ==
    CASE outcome.kind = "return" ->
           [term |-> NoTermInfo, exc |-> "None"]
      [] outcome.kind = "TerminateRun" ->
           [term |-> _term_info(outcome.status, FALSE, FALSE), exc |-> "None"]
      [] outcome.kind = "FailedRun" ->
           [term |-> _term_info("FAILED", TRUE, FALSE), exc |-> "None"]
      [] outcome.kind = "Exception" ->
           [term |-> _term_info("ERROR", FALSE, TRUE), exc |-> "PhaseCompletionError"]
      [] outcome.kind = "KeyboardInterrupt" ->
           [term |-> _term_info("INTERRUPTED", FALSE, FALSE), exc |-> "KeyboardInterrupt"]
      [] outcome.kind = "SystemExit" ->
           [term |-> _term_info(IF outcome.code = 0 THEN "COMPLETED" ELSE "FAILED", FALSE, FALSE),
            exc |-> "SystemExit"]

\* the exit test without the stop status
MutLoopBreakNoStop == term_info # NoTermInfo \/ exc # "None"
\* the exit test without the captured termination
MutLoopBreakNoTerm == exc # "None" \/ stop_status # "NONE"

\* Phaser.run, the loop's exit test: if term_info or exc or self._stop_status
LoopBreak == term_info # NoTermInfo \/ exc # "None" \/ stop_status # "NONE"

\* the final termination without the stop status
MutFinalIgnoresStop ==
    IF term_info # NoTermInfo THEN term_info ELSE _term_info("COMPLETED", FALSE, FALSE)

\* the captured termination taking precedence over the stop status
MutFinalCapturedFirst ==
    IF term_info # NoTermInfo THEN term_info
    ELSE IF stop_status # "NONE" THEN _term_info(stop_status, FALSE, FALSE)
    ELSE _term_info("COMPLETED", FALSE, FALSE)

\* Phaser.run after the loop: the value assigned to self._termination_info
FinalTermInfo ==
    IF stop_status # "NONE" THEN _term_info(stop_status, FALSE, FALSE)
    ELSE IF term_info # NoTermInfo THEN term_info
    ELSE _term_info("COMPLETED", FALSE, FALSE)

\* prime without the abort test
MutPrimeNoAbort == FALSE

\* Phaser.prime, first test under the lock: if self._abort: return
PrimeAborted == abort

\* run without the abort test
MutRunNoAbort == FALSE

\* Phaser.run, under the lock: if self._abort: return
RunAborted == abort

\* Phaser.run, the unlocked entry test: if self._current_phase is None
NotPrimed == current_phase = NoPhase

\* stop without the termination test
MutStopNoTerminated == FALSE

\* Phaser.stop, first test under the lock: if self._termination_info: return
StopTerminated == termination_info # NoTermInfo

\* Phaser.stop: the status recorded in self._stop_status
StopStatusNow ==
    IF current_phase # NoPhase THEN StopStatusOf(current_phase) ELSE "STOPPED"

dlocals == <<idx, term_info, exc>>
stopper == <<spc, stops>>
phaserState == <<lifecycle, started, current_phase, abort, stop_status, termination_info>>
history == <<lastOutcome, captured, stopSnaps, runCall, primeCalls, stopBeforePrime, loopEnded,
             loopRet>>

\* the driver's call returns or raises
Return(result) ==
    /\ dpc' = "idle"
    /\ ret' = result

----------------------------------------------------------------------------
\* Phaser.prime: the section under the lock
PrimeLock ==
    /\ dpc = "idle" /\ calls < MaxCalls
    /\ calls' = calls + 1 /\ lastOp' = "prime"
    /\ primeCalls' = primeCalls + 1
    /\ IF PrimeAborted
         THEN /\ Return("returned")
              /\ UNCHANGED <<lifecycle, current_phase>>
       ELSE IF current_phase # NoPhase
         THEN /\ Return("InvalidStateError")
              /\ UNCHANGED <<lifecycle, current_phase>>
       ELSE /\ _next_phase(InitId)
            /\ dpc' = "prime_hook"
            /\ ret' = "none"
    /\ UNCHANGED <<started, abort, stop_status, termination_info, hookLog, dlocals,
                   stopper, ran, stopSignalled, lastOutcome, captured, stopSnaps,
                   runCall, stopBeforePrime, loopEnded, loopRet>>
    /\ UNCHANGED <<bvars, qvars, svars, avars, wvars, nvars, rvars, tvars, evars>>

\* Phaser.prime: the hook call after the lock is released
PrimeHook ==
    /\ dpc = "prime_hook"
    /\ _execute_transition_hook
    /\ Return("returned")
    /\ UNCHANGED <<phaserState, dlocals, calls, lastOp, stopper, ran, stopSignalled, history>>
    /\ UNCHANGED <<bvars, qvars, svars, avars, wvars, nvars, rvars, tvars, evars>>

\* Phaser.run: the entry test, read without the lock
RunCheck ==
    /\ dpc = "idle" /\ calls < MaxCalls
    /\ calls' = calls + 1 /\ lastOp' = "run"
    /\ runCall' = [n |-> runCall.n + 1, primed |-> primeCalls > 0, wasStarted |-> started,
                   lifecycle |-> lifecycle, ran |-> ran]
    /\ IF NotPrimed
         THEN Return("InvalidStateError")
         ELSE dpc' = "run_start" /\ ret' = "none"
    /\ UNCHANGED <<phaserState, hookLog, dlocals, stopper, ran, stopSignalled,
                   lastOutcome, captured, stopSnaps, primeCalls, stopBeforePrime, loopEnded,
                   loopRet>>
    /\ UNCHANGED <<bvars, qvars, svars, avars, wvars, nvars, rvars, tvars, evars>>

\* Phaser.run: the first section under the lock
RunStart ==
    /\ dpc = "run_start"
    /\ IF started
         THEN /\ Return("InvalidStateError")
              /\ UNCHANGED <<started, dlocals>>
       ELSE IF RunAborted
         THEN /\ Return("returned")
              /\ UNCHANGED <<started, dlocals>>
       ELSE /\ started' = TRUE
            /\ term_info' = NoTermInfo /\ exc' = "None" /\ idx' = 1
            /\ dpc' = IF NPhases >= 1 THEN "loop_head" ELSE "finish"
            /\ ret' = "none"
    /\ UNCHANGED <<lifecycle, current_phase, abort, stop_status, termination_info,
                   hookLog, calls, lastOp, stopper, ran, stopSignalled, history>>
    /\ UNCHANGED <<bvars, qvars, svars, avars, wvars, nvars, rvars, tvars, evars>>

\* Phaser.run: the head of one loop iteration, under the lock
LoopHead ==
    /\ dpc = "loop_head"
    /\ IF LoopBreak
         THEN /\ dpc' = "finish"
              /\ UNCHANGED <<lifecycle, current_phase>>
         ELSE /\ _next_phase(idx)
              /\ dpc' = "loop_hook"
    /\ UNCHANGED <<started, abort, stop_status, termination_info, hookLog, dlocals,
                   calls, lastOp, ret, stopper, ran, stopSignalled, history>>
    /\ UNCHANGED <<bvars, qvars, svars, avars, wvars, nvars, rvars, tvars, evars>>

\* Phaser.run: the hook call of one iteration, without the lock
LoopHook ==
    /\ dpc = "loop_hook"
    /\ _execute_transition_hook
    /\ dpc' = "phase_run"
    /\ UNCHANGED <<phaserState, dlocals, calls, lastOp, ret, stopper, ran, stopSignalled, history>>
    /\ UNCHANGED <<bvars, qvars, svars, avars, wvars, nvars, rvars, tvars, evars>>

\* Phaser.run: term_info, exc = self._run_handle_errors(phase, ctx)
RunPhase ==
    /\ dpc = "phase_run"
    /\ \E outcome \in Outcomes :
         LET r == _run_handle_errors(outcome) IN
         /\ term_info' = r.term
         /\ exc' = r.exc
         /\ lastOutcome' = [phase |-> idx, outcome |-> outcome]
         /\ captured' = r.term
         /\ stopSignalled' = IF outcome.kind = "KeyboardInterrupt"
                               THEN stopSignalled \cup {idx} ELSE stopSignalled
    /\ ran' = ran \cup {idx}
    /\ idx' = idx + 1
    /\ dpc' = IF idx + 1 <= NPhases THEN "loop_head" ELSE "finish"
    /\ UNCHANGED <<phaserState, hookLog, calls, lastOp, ret, stopper, stopSnaps, runCall,
                   primeCalls, stopBeforePrime, loopEnded, loopRet>>
    /\ UNCHANGED <<bvars, qvars, svars, avars, wvars, nvars, rvars, tvars, evars>>

\* Phaser.run: the section under the lock after the loop
Finish ==
    /\ dpc = "finish"
    /\ term_info' = IF stop_status # "NONE"
                      THEN _term_info(stop_status, FALSE, FALSE) ELSE term_info
    /\ termination_info' = FinalTermInfo
    /\ _next_phase(TerminalId)
    /\ loopEnded' = TRUE
    /\ dpc' = "final_hook"
    /\ UNCHANGED <<started, abort, stop_status, hookLog, idx, exc, calls, ret, stopper,
                   ran, stopSignalled, lastOutcome, captured, stopSnaps, runCall,
                   primeCalls, stopBeforePrime, loopRet, lastOp>>
    /\ UNCHANGED <<bvars, qvars, svars, avars, wvars, nvars, rvars, tvars, evars>>

\* Phaser.run: the last hook call, then: if exc: raise exc
FinalHook ==
    /\ dpc = "final_hook"
    /\ _execute_transition_hook
    /\ Return(IF exc # "None" THEN exc ELSE "returned")
    /\ loopRet' = ret'
    /\ UNCHANGED <<phaserState, dlocals, calls, lastOp, stopper, ran, stopSignalled, lastOutcome,
                   captured, stopSnaps, runCall, primeCalls, stopBeforePrime, loopEnded>>
    /\ UNCHANGED <<bvars, qvars, svars, avars, wvars, nvars, rvars, tvars, evars>>

\* Phaser.stop: the section under the lock
StopLock ==
    /\ spc = "idle" /\ stops < MaxStops
    /\ stops' = stops + 1
    /\ IF StopTerminated
         THEN UNCHANGED <<phaserState, spc, stopSnaps, stopBeforePrime>>
         ELSE /\ stop_status' = StopStatusNow
              /\ stopSnaps' = Append(stopSnaps,
                    [phase |-> current_phase, len |-> Len(lifecycle), wasStarted |-> started,
                     ran |-> ran])
              /\ stopBeforePrime' = (stopBeforePrime \/ current_phase = NoPhase)
              /\ IF ~started
                   THEN /\ abort' = TRUE
                        /\ termination_info' = _term_info(StopStatusNow, FALSE, FALSE)
                        /\ _next_phase(TerminalId)
                   ELSE UNCHANGED <<abort, termination_info, lifecycle, current_phase>>
              /\ spc' = "stop_phase"
              /\ UNCHANGED started
    /\ UNCHANGED <<hookLog, dpc, dlocals, calls, ret, ran, stopSignalled, lastOutcome,
                   captured, runCall, primeCalls, loopEnded, loopRet, lastOp>>
    /\ UNCHANGED <<bvars, qvars, svars, avars, wvars, nvars, rvars, tvars, evars>>

\* Phaser.stop: self._current_phase.stop(), without the lock
StopPhase ==
    /\ spc = "stop_phase"
    /\ stopSignalled' = stopSignalled \cup {current_phase}
    /\ spc' = "stop_hook"
    /\ UNCHANGED <<phaserState, hookLog, dpc, dlocals, calls, lastOp, ret, stops, ran, history>>
    /\ UNCHANGED <<bvars, qvars, svars, avars, wvars, nvars, rvars, tvars, evars>>

\* Phaser.stop: if self._abort: self._execute_transition_hook()
StopHook ==
    /\ spc = "stop_hook"
    /\ IF abort THEN _execute_transition_hook ELSE UNCHANGED hookLog
    /\ spc' = "idle"
    /\ UNCHANGED <<phaserState, dpc, dlocals, calls, lastOp, ret, stops, ran, stopSignalled, history>>
    /\ UNCHANGED <<bvars, qvars, svars, avars, wvars, nvars, rvars, tvars, evars>>

PhaserNext ==
    \/ PrimeLock \/ PrimeHook
    \/ RunCheck \/ RunStart \/ LoopHead \/ LoopHook \/ RunPhase \/ Finish \/ FinalHook
    \/ StopLock \/ StopPhase \/ StopHook

----------------------------------------------------------------------------
(***************************************************************************)
(* BasePhase.run                                                           *)
(***************************************************************************)
\* TerminationInfo(status, timestamp, fault) of a phase; timestamps left out
PhaseTermInfo(status, fault) == [status |-> status, fault |-> fault]
\* self._termination = None
NoPhaseTerm == [status |-> "UNSET", fault |-> "None"]

\* what the subclass's _run(ctx) may do
ExecutionStatuses == {"STOPPED", "TIMEOUT", "FAILED"}
RunOutcomes ==
    [kind : {"return", "Exception", "KeyboardInterrupt", "SystemExit"},
     status : {"NONE"}, cause : {FALSE}]
    \cup [kind : {"ExecutionTerminated"}, status : ExecutionStatuses, cause : BOOLEAN]

\* 'raise PhaseCompletionError from e': the class is instantiated without
\* arguments, and PhaseCompletionError.__init__ requires phase_id, so the
\* instantiation itself raises TypeError, which is what propagates
RaisePhaseCompletionError == "TypeError"

\* RunHandler with the generic exception recorded without its fault category
MutRunHandlerNoFault(outcome) ==
    CASE outcome.kind = "return" ->
           [term |-> NoPhaseTerm, raising |-> "None", stop |-> FALSE]
      [] outcome.kind = "ExecutionTerminated" ->
           [term |-> PhaseTermInfo(outcome.status,
                        IF outcome.cause THEN "EXECUTION_TERMINATED" ELSE "None"),
            raising |-> RaisePhaseCompletionError, stop |-> FALSE]
      [] outcome.kind = "Exception" ->
           [term |-> PhaseTermInfo("FAILED", "None"),
            raising |-> RaisePhaseCompletionError, stop |-> FALSE]
      [] outcome.kind \in {"KeyboardInterrupt", "SystemExit"} ->
           [term |-> PhaseTermInfo("INTERRUPTED", "None"),
            raising |-> outcome.kind, stop |-> TRUE]

\* the except clauses of BasePhase.run: the local term and what is raised
RunHandler(outcome) ==
    CASE outcome.kind = "return" ->
           [term |-> NoPhaseTerm, raising |-> "None", stop |-> FALSE]
      [] outcome.kind = "ExecutionTerminated" ->
           [term |-> PhaseTermInfo(outcome.status,
                        IF outcome.cause THEN "EXECUTION_TERMINATED" ELSE "None"),
            raising |-> RaisePhaseCompletionError, stop |-> FALSE]
      [] outcome.kind = "Exception" ->
           [term |-> PhaseTermInfo("FAILED", "UNCAUGHT_PHASE_RUN_EXCEPTION"),
            raising |-> RaisePhaseCompletionError, stop |-> FALSE]
      [] outcome.kind \in {"KeyboardInterrupt", "SystemExit"} ->
           [term |-> PhaseTermInfo("INTERRUPTED", "None"),
            raising |-> outcome.kind, stop |-> TRUE]

\* the observer objects that callers may register
Obs == 1..NObservers
NoRun == [kind |-> "none", status |-> "NONE", cause |-> FALSE]
NoAdd == [obs |-> 0, replay |-> FALSE, earlier |-> {}, stage |-> "NONE"]

Registered(obsSeq) == {obsSeq[i] : i \in 1..Len(obsSeq)}

\* self._notification.observer_proxy.new_phase_update(event): the event is
\* handed to every registered observer
Notify(dl, obsSeq, stage) ==
    [o \in Obs |-> IF o \in Registered(obsSeq) THEN Append(dl[o], stage) ELSE dl[o]]

\* detail.lifecycle.stage of PhaseDetail.from_phase(self)
LifecycleStage ==
    IF termination # NoPhaseTerm THEN "ENDED"
    ELSE IF started_at # 0 THEN "RUNNING"
    ELSE "CREATED"

\* BasePhase.__init__
BasePhaseInit ==
    /\ started_at = 0
    /\ termination = NoPhaseTerm
    /\ bpc = "idle" /\ term = NoPhaseTerm /\ raising = "None"
    /\ bret = "none" /\ bruns = 0
    /\ updates = <<>>
    /\ stop_calls = 0
    /\ observers = <<>>
    /\ delivered = [o \in Obs |-> <<>>]
    /\ adds = 0
    /\ lastRun = NoRun /\ stopsBefore = 0 /\ lastAdd = NoAdd

\* BasePhase.run: started_at and the RUNNING update
BaseRunBegin ==
    /\ bpc = "idle" /\ bruns < MaxPhaseRuns
    /\ bruns' = bruns + 1
    /\ started_at' = bruns + 1
    /\ updates' = Append(updates, "RUNNING")
    /\ delivered' = Notify(delivered, observers, "RUNNING")
    /\ term' = NoPhaseTerm /\ raising' = "None" /\ bret' = "none"
    /\ lastRun' = NoRun /\ stopsBefore' = stop_calls
    /\ bpc' = "_run"
    /\ UNCHANGED <<termination, stop_calls, observers, adds, lastAdd>>
    /\ UNCHANGED <<pvars, qvars, svars, avars, wvars, nvars, rvars, tvars, evars>>

\* BasePhase.run: self._run(ctx) and the except clause it ends in
BaseRunBody ==
    /\ bpc = "_run"
    /\ \E outcome \in RunOutcomes :
         LET h == RunHandler(outcome) IN
         /\ term' = h.term
         /\ raising' = h.raising
         /\ stop_calls' = IF h.stop THEN stop_calls + 1 ELSE stop_calls
         /\ lastRun' = outcome
    /\ bpc' = "finally"
    /\ UNCHANGED <<started_at, termination, bret, bruns, updates, observers, delivered,
                   adds, stopsBefore, lastAdd>>
    /\ UNCHANGED <<pvars, qvars, svars, avars, wvars, nvars, rvars, tvars, evars>>

\* BasePhase.run: the finally block, then the return or the raise
BaseRunFinally ==
    /\ bpc = "finally"
    /\ termination' = IF term # NoPhaseTerm THEN term ELSE PhaseTermInfo("COMPLETED", "None")
    /\ updates' = Append(updates, "ENDED")
    /\ delivered' = Notify(delivered, observers, "ENDED")
    /\ bret' = IF raising # "None" THEN raising ELSE "returned"
    /\ bpc' = "idle"
    /\ UNCHANGED <<started_at, term, raising, bruns, stop_calls, observers, adds,
                   lastRun, stopsBefore, lastAdd>>
    /\ UNCHANGED <<pvars, qvars, svars, avars, wvars, nvars, rvars, tvars, evars>>

\* BasePhase.add_phase_observer, called from any thread
AddPhaseObserver(o, replay_last_update) ==
    /\ adds < MaxAdds /\ o \notin Registered(observers)
    /\ adds' = adds + 1
    /\ observers' = Append(observers, o)
    /\ delivered' = IF replay_last_update
                      THEN Notify(delivered, observers', LifecycleStage)
                      ELSE delivered
    /\ lastAdd' = [obs |-> o, replay |-> replay_last_update,
                   earlier |-> Registered(observers), stage |-> LifecycleStage]
    /\ UNCHANGED <<started_at, termination, bpc, term, raising, bret, bruns, updates,
                   stop_calls, lastRun, stopsBefore>>
    /\ UNCHANGED <<pvars, qvars, svars, avars, wvars, nvars, rvars, tvars, evars>>

\* BasePhase.remove_phase_observer, called from any thread
RemovePhaseObserver(o) ==
    /\ o \in Registered(observers)
    /\ observers' = SelectSeq(observers, LAMBDA x : x # o)
    /\ UNCHANGED <<started_at, termination, bpc, term, raising, bret, bruns, updates,
                   stop_calls, delivered, adds, lastRun, stopsBefore, lastAdd>>
    /\ UNCHANGED <<pvars, qvars, svars, avars, wvars, nvars, rvars, tvars, evars>>

\* one thread calling run() on the phase
BasePhaseNext == BaseRunBegin \/ BaseRunBody \/ BaseRunFinally

\* the same, with other threads registering and removing observers
ObservedPhaseNext ==
    \/ BasePhaseNext
    \/ \E o \in Obs : \E replay_last_update \in BOOLEAN :
           AddPhaseObserver(o, replay_last_update)
    \/ \E o \in Obs : RemovePhaseObserver(o)

----------------------------------------------------------------------------
(***************************************************************************)
(* SequentialPhase: one thread in run(), one thread calling stop(); the    *)
(* children are BasePhase instances                                        *)
(***************************************************************************)
\* self._children, in order
Children == 1..NChildren
\* self._current_child = None
NoChild == 0

\* what leaves a child's run(): nothing, the signal, or the exception
\* raised by the child's except clause (an Exception in either case)
Propagated(raised) ==
    IF raised = "None" THEN NoRun
    ELSE IF raised \in {"KeyboardInterrupt", "SystemExit"}
      THEN [kind |-> raised, status |-> "NONE", cause |-> FALSE]
    ELSE [kind |-> "Exception", status |-> "NONE", cause |-> FALSE]

\* raise ExecutionTerminated(status)
RaiseExecutionTerminated(status) ==
    [kind |-> "ExecutionTerminated", status |-> status, cause |-> FALSE]

\* the termination BasePhase.run leaves after its handler produced h
Recorded(h) == IF h.term # NoPhaseTerm THEN h.term ELSE PhaseTermInfo("COMPLETED", "None")

\* SequentialPhase.__init__
SequentialInit ==
    /\ seq_stopped = FALSE
    /\ seq_current_child = NoChild
    /\ seq_stop_lock = "free"
    /\ seq_pc = "idle" /\ seq_idx = 0 /\ seq_exc = NoRun
    /\ seq_termination = NoPhaseTerm
    /\ child_termination = [c \in Children |-> NoPhaseTerm]
    /\ seq_ret = "none"
    /\ seq_spc = "idle" /\ seq_stops = 0
    /\ children_made = {} /\ children_run = {} /\ children_stopped = {}
    /\ seq_snaps = <<>> /\ seq_raised_stopped = FALSE

\* BasePhase.run of the SequentialPhase up to the call of _run
SeqRunBegin ==
    /\ seq_pc = "idle"
    /\ seq_idx' = 1
    /\ seq_pc' = "loop"
    /\ UNCHANGED <<seq_stopped, seq_current_child, seq_stop_lock, seq_exc, seq_termination,
                   child_termination, seq_ret, seq_spc, seq_stops, children_made,
                   children_run, children_stopped, seq_snaps, seq_raised_stopped>>
    /\ UNCHANGED <<pvars, bvars, qvars, avars, wvars, nvars, rvars, tvars, evars>>

\* SequentialPhase._run: the head of the for loop and the section under
\* self._stop_lock
SeqLoopLock ==
    /\ seq_pc = "loop"
    /\ IF seq_idx > NChildren
         THEN /\ seq_exc' = [NoRun EXCEPT !.kind = "return"]
              /\ seq_pc' = "finally"
              /\ UNCHANGED <<seq_current_child, children_made, seq_raised_stopped>>
         ELSE /\ seq_stop_lock = "free"
              /\ IF seq_stopped
                   THEN /\ seq_exc' = RaiseExecutionTerminated("STOPPED")
                        /\ seq_raised_stopped' = TRUE
                        /\ seq_pc' = "finally"
                        /\ UNCHANGED <<seq_current_child, children_made>>
                   ELSE /\ seq_current_child' = seq_idx
                        /\ children_made' = children_made \cup {seq_idx}
                        /\ seq_pc' = "child"
                        /\ UNCHANGED <<seq_exc, seq_raised_stopped>>
    /\ UNCHANGED <<seq_stopped, seq_stop_lock, seq_idx, seq_termination, child_termination,
                   seq_ret, seq_spc, seq_stops, children_run, children_stopped, seq_snaps>>
    /\ UNCHANGED <<pvars, bvars, qvars, avars, wvars, nvars, rvars, tvars, evars>>

\* SequentialPhase._run: child.run(ctx) is called
SeqChildRun ==
    /\ seq_pc = "child"
    /\ children_run' = children_run \cup {seq_idx}
    /\ seq_pc' = "in_child"
    /\ UNCHANGED <<seq_stopped, seq_current_child, seq_stop_lock, seq_idx, seq_exc,
                   seq_termination, child_termination, seq_ret, seq_spc, seq_stops,
                   children_made, children_stopped, seq_snaps, seq_raised_stopped>>
    /\ UNCHANGED <<pvars, bvars, qvars, avars, wvars, nvars, rvars, tvars, evars>>

\* child.run(ctx) ends (BasePhase.run of the child), then the status test
SeqChildEnd ==
    /\ seq_pc = "in_child"
    /\ \E outcome \in RunOutcomes :
         LET h == RunHandler(outcome)
             child_term == Recorded(h)
         IN /\ child_termination' = [child_termination EXCEPT ![seq_idx] = child_term]
            /\ children_stopped' = IF h.stop THEN children_stopped \cup {seq_idx}
                                   ELSE children_stopped
            /\ IF h.raising # "None"
                 THEN /\ seq_exc' = Propagated(h.raising)
                      /\ seq_pc' = "finally"
                      /\ UNCHANGED seq_idx
               ELSE IF child_term.status # "COMPLETED"
                 THEN /\ seq_exc' = RaiseExecutionTerminated(child_term.status)
                      /\ seq_pc' = "finally"
                      /\ UNCHANGED seq_idx
               ELSE /\ seq_idx' = seq_idx + 1
                    /\ seq_pc' = "loop"
                    /\ UNCHANGED seq_exc
    /\ UNCHANGED <<seq_stopped, seq_current_child, seq_stop_lock, seq_termination, seq_ret,
                   seq_spc, seq_stops, children_made, children_run, seq_snaps,
                   seq_raised_stopped>>
    /\ UNCHANGED <<pvars, bvars, qvars, avars, wvars, nvars, rvars, tvars, evars>>

\* SequentialPhase._run: finally: self._current_child = None (no lock taken)
SeqFinally ==
    /\ seq_pc = "finally"
    /\ seq_current_child' = NoChild
    /\ seq_pc' = "handle"
    /\ UNCHANGED <<seq_stopped, seq_stop_lock, seq_idx, seq_exc, seq_termination,
                   child_termination, seq_ret, seq_spc, seq_stops, children_made,
                   children_run, children_stopped, seq_snaps, seq_raised_stopped>>
    /\ UNCHANGED <<pvars, bvars, qvars, avars, wvars, nvars, rvars, tvars, evars>>

\* BasePhase.run of the SequentialPhase: the except clause (self.stop() on
\* an interrupt, with _current_child already None) and the finally block
SeqRunEnd ==
    /\ seq_pc = "handle"
    /\ LET h == RunHandler(seq_exc) IN
       /\ h.stop => seq_stop_lock = "free"
       /\ seq_stopped' = (seq_stopped \/ h.stop)
       /\ seq_termination' = Recorded(h)
       /\ seq_ret' = IF h.raising # "None" THEN h.raising ELSE "returned"
    /\ seq_pc' = "done"
    /\ UNCHANGED <<seq_current_child, seq_stop_lock, seq_idx, seq_exc, child_termination,
                   seq_spc, seq_stops, children_made, children_run, children_stopped,
                   seq_snaps, seq_raised_stopped>>
    /\ UNCHANGED <<pvars, bvars, qvars, avars, wvars, nvars, rvars, tvars, evars>>

\* SequentialPhase.stop: with self._stop_lock: self._stopped = True;
\* if self._current_child:
SeqStopLock ==
    /\ seq_spc = "idle" /\ seq_stops < MaxStops
    /\ seq_stop_lock = "free"
    /\ seq_stops' = seq_stops + 1
    /\ seq_stopped' = TRUE
    /\ seq_snaps' = Append(seq_snaps, [current |-> seq_current_child, made |-> children_made,
                                        forwarded |-> NoChild, ret |-> "none"])
    /\ IF seq_current_child # NoChild
         THEN seq_stop_lock' = "stop" /\ seq_spc' = "forward"
         ELSE /\ UNCHANGED <<seq_stop_lock, seq_spc>>
    /\ UNCHANGED <<seq_current_child, seq_pc, seq_idx, seq_exc, seq_termination,
                   child_termination, seq_ret, children_made, children_run,
                   children_stopped, seq_raised_stopped>>
    /\ UNCHANGED <<pvars, bvars, qvars, avars, wvars, nvars, rvars, tvars, evars>>

\* SequentialPhase.stop: self._current_child.stop(), reading the field
\* again; on None the attribute lookup raises AttributeError
SeqStopForward ==
    /\ seq_spc = "forward"
    /\ LET n == Len(seq_snaps) IN
       IF seq_current_child # NoChild
         THEN /\ children_stopped' = children_stopped \cup {seq_current_child}
              /\ seq_snaps' = [seq_snaps EXCEPT ![n].forwarded = seq_current_child,
                                                ![n].ret = "returned"]
         ELSE /\ seq_snaps' = [seq_snaps EXCEPT ![n].ret = "AttributeError"]
              /\ UNCHANGED children_stopped
    /\ seq_stop_lock' = "free"
    /\ seq_spc' = "idle"
    /\ UNCHANGED <<seq_stopped, seq_current_child, seq_pc, seq_idx, seq_exc, seq_termination,
                   child_termination, seq_ret, seq_stops, children_made, children_run,
                   seq_raised_stopped>>
    /\ UNCHANGED <<pvars, bvars, qvars, avars, wvars, nvars, rvars, tvars, evars>>

SequentialNext ==
    \/ SeqRunBegin \/ SeqLoopLock \/ SeqChildRun \/ SeqChildEnd \/ SeqFinally \/ SeqRunEnd
    \/ SeqStopLock \/ SeqStopForward

----------------------------------------------------------------------------
(***************************************************************************)
(* ApprovalPhase: one thread in run(), one thread calling stop(), other    *)
(* threads calling approve()                                               *)
(***************************************************************************)
\* the timeout argument: 0 (wait without limit) or a positive number
Timeouts == {0, 1}
NoTimeout == [elapsed |-> FALSE, approves |-> 0, stop_called |-> FALSE]

\* the tests after the wait, timeout first
MutApprovalOutcomeTimeoutFirst(stopped, was_approved) ==
    IF ~was_approved THEN "TerminateRun"
    ELSE "returned"

\* ApprovalPhase.run: the tests after the wait
ApprovalOutcome(stopped, was_approved) ==
    IF stopped THEN "returned"
    ELSE IF ~was_approved THEN "TerminateRun"
    ELSE "returned"

\* stop() has executed its first statement at least once
StopCalled == ap_stops > 0 \/ ap_spc = "set"

\* ApprovalPhase.__init__; the timeout argument is drawn when run() reads it
ApprovalInit ==
    /\ ap_timeout = 0
    /\ ap_event = FALSE
    /\ ap_stopped = FALSE
    /\ ap_pc = "idle" /\ approved = FALSE /\ ap_ret = "none"
    /\ ap_spc = "idle" /\ ap_stops = 0 /\ approves = 0
    /\ ap_at_timeout = NoTimeout /\ ap_stop_seen = FALSE

\* ApprovalPhase.run is called and reaches self._event.wait
ApprovalRun ==
    /\ ap_pc = "idle"
    /\ ap_timeout' \in Timeouts
    /\ ap_pc' = "wait"
    /\ UNCHANGED <<ap_event, ap_stopped, approved, ap_ret, ap_spc, ap_stops, approves,
                   ap_at_timeout, ap_stop_seen>>
    /\ UNCHANGED <<pvars, bvars, qvars, svars, wvars, nvars, rvars, tvars, evars>>

\* self._event.wait(self._timeout or None) returns True: the flag is set
ApprovalWaitSet ==
    /\ ap_pc = "wait" /\ ap_event
    /\ approved' = TRUE
    /\ ap_pc' = "test"
    /\ UNCHANGED <<ap_timeout, ap_event, ap_stopped, ap_ret, ap_spc, ap_stops, approves,
                   ap_at_timeout, ap_stop_seen>>
    /\ UNCHANGED <<pvars, bvars, qvars, svars, wvars, nvars, rvars, tvars, evars>>

\* self._event.wait(self._timeout or None) returns False: the timeout has
\* elapsed with the flag not set
ApprovalWaitTimeout ==
    /\ ap_pc = "wait" /\ ~ap_event /\ ap_timeout # 0
    /\ approved' = FALSE
    /\ ap_at_timeout' = [elapsed |-> TRUE, approves |-> approves,
                         stop_called |-> StopCalled]
    /\ ap_pc' = "test"
    /\ UNCHANGED <<ap_timeout, ap_event, ap_stopped, ap_ret, ap_spc, ap_stops, approves,
                   ap_stop_seen>>
    /\ UNCHANGED <<pvars, bvars, qvars, svars, wvars, nvars, rvars, tvars, evars>>

\* ApprovalPhase.run: if self._stopped: return; if not approved: raise
ApprovalTest ==
    /\ ap_pc = "test"
    /\ ap_stop_seen' = ap_stopped
    /\ ap_ret' = ApprovalOutcome(ap_stopped, approved)
    /\ ap_pc' = "done"
    /\ UNCHANGED <<ap_timeout, ap_event, ap_stopped, approved, ap_spc, ap_stops, approves,
                   ap_at_timeout>>
    /\ UNCHANGED <<pvars, bvars, qvars, svars, wvars, nvars, rvars, tvars, evars>>

\* ApprovalPhase.approve
Approve ==
    /\ approves < MaxApproves
    /\ approves' = approves + 1
    /\ ap_event' = TRUE
    /\ UNCHANGED <<ap_timeout, ap_stopped, ap_pc, approved, ap_ret, ap_spc, ap_stops,
                   ap_at_timeout, ap_stop_seen>>
    /\ UNCHANGED <<pvars, bvars, qvars, svars, wvars, nvars, rvars, tvars, evars>>

\* ApprovalPhase.stop: self._stopped = True
ApprovalStopFlag ==
    /\ ap_spc = "idle" /\ ap_stops < MaxStops
    /\ ap_stopped' = TRUE
    /\ ap_spc' = "set"
    /\ UNCHANGED <<ap_timeout, ap_event, ap_pc, approved, ap_ret, ap_stops, approves,
                   ap_at_timeout, ap_stop_seen>>
    /\ UNCHANGED <<pvars, bvars, qvars, svars, wvars, nvars, rvars, tvars, evars>>

\* stop() returning with the flag as it found it
MutStopLeavesEvent == ap_event

\* ApprovalPhase.stop: the flag of self._event after self._event.set()
StopEvent == TRUE

\* ApprovalPhase.stop: self._event.set()
ApprovalStopSet ==
    /\ ap_spc = "set"
    /\ ap_event' = StopEvent
    /\ ap_stops' = ap_stops + 1
    /\ ap_spc' = "idle"
    /\ UNCHANGED <<ap_timeout, ap_stopped, ap_pc, approved, ap_ret, approves, ap_at_timeout,
                   ap_stop_seen>>
    /\ UNCHANGED <<pvars, bvars, qvars, svars, wvars, nvars, rvars, tvars, evars>>

ApprovalNext ==
    \/ ApprovalRun \/ ApprovalWaitSet \/ ApprovalWaitTimeout \/ ApprovalTest
    \/ Approve \/ ApprovalStopFlag \/ ApprovalStopSet

----------------------------------------------------------------------------
(***************************************************************************)
(* ExecutionQueue: peer instances with phases [queue, protected], in one   *)
(* process or several, sharing queue id, max_executions and the queue lock *)
(***************************************************************************)
Peers == 1..NPeers

\* job_run.run.lifecycle.created_at: the higher peer was created first
CreatedAt(p) == NPeers - p

\* sorted(jobs, key=created_at)
RECURSIVE SortedByCreatedAt(_)
SortedByCreatedAt(S) ==
    IF S = {} THEN <<>>
    ELSE LET first == CHOOSE p \in S : \A q \in S : CreatedAt(p) <= CreatedAt(q)
         IN <<first>> \o SortedByCreatedAt(S \ {first})

NoSignal == [target |-> 0, executed |-> FALSE]
NoDispatchCall == [caller |-> 0, executing |-> 0, signals |-> <<>>]

\* QueuedState.dequeued with DISPATCHED taken as not dequeued
MutDequeuedOnlyCancelled(st) == st = "CANCELLED"

\* QueuedState.dequeued
Dequeued(st) == st \in {"DISPATCHED", "CANCELLED"}

\* JobRuns.executing / JobRuns.queued: by the run state of the lifecycle's
\* current phase, as the registry reports it
Executing == {p \in Peers : run_state[p] = "EXECUTING"}
Queued == {p \in Peers : run_state[p] = "IN_QUEUE"}

\* the slots without the executing runs
MutNextCountAll == MaxExecutions

\* _dispatch_next: max_executions - len(executing)
NextCount == MaxExecutions - Cardinality(Executing)

\* Condition.notify / notify_all on a phase's wait guard: its run() thread,
\* if blocked in wait(), goes back to the head of the loop
Notified(pcs, p) == IF pcs[p] = "waiting" THEN [pcs EXCEPT ![p] = "guard"] ELSE pcs

\* ExecutionQueue.__init__ of every peer; no Phaser has entered the phase
QueueInit ==
    /\ run_state = [p \in Peers |-> "CREATED"]
    /\ qstate = [p \in Peers |-> "NONE"]
    /\ current_wait = [p \in Peers |-> FALSE]
    /\ state_receiver = [p \in Peers |-> FALSE]
    /\ qpc = [p \in Peers |-> "created"]
    /\ stop_requested = [p \in Peers |-> FALSE]
    /\ locker = 0
    /\ queued = <<>>
    /\ next_count = 0
    /\ in_flight = {}
    /\ signalled = NoSignal
    /\ dispatch_call = NoDispatchCall

\* the instance's Phaser enters the queue phase and calls its run()
EnterQueue(p) ==
    /\ qpc[p] = "created"
    /\ run_state' = [run_state EXCEPT ![p] = "IN_QUEUE"]
    /\ qpc' = [qpc EXCEPT ![p] = "guard"]
    /\ UNCHANGED <<qstate, current_wait, state_receiver, stop_requested, locker, queued,
                   next_count, in_flight, signalled>>
    /\ UNCHANGED dispatch_call
    /\ UNCHANGED <<pvars, bvars, svars, avars, wvars, nvars, rvars, tvars, evars>>

\* ExecutionQueue.run: one pass of the section under self._wait_guard
Guard(p) ==
    /\ qpc[p] = "guard"
    /\ LET st == IF qstate[p] = "NONE" THEN "IN_QUEUE" ELSE qstate[p] IN
       /\ qstate' = [qstate EXCEPT ![p] = st]
       /\ IF Dequeued(st)
            THEN /\ qpc' = [qpc EXCEPT ![p] = "returned"]
                 /\ UNCHANGED <<current_wait, state_receiver>>
          ELSE IF current_wait[p]
            THEN /\ qpc' = [qpc EXCEPT ![p] = "waiting"]
                 /\ UNCHANGED <<current_wait, state_receiver>>
          ELSE /\ current_wait' = [current_wait EXCEPT ![p] = TRUE]
               /\ state_receiver' = [state_receiver EXCEPT ![p] = TRUE]
               /\ qpc' = [qpc EXCEPT ![p] = "lock"]
    /\ UNCHANGED <<run_state, stop_requested, locker, queued, next_count, in_flight, signalled>>
    /\ UNCHANGED dispatch_call
    /\ UNCHANGED <<pvars, bvars, svars, avars, wvars, nvars, rvars, tvars, evars>>

\* the with block left with the lock still held
MutLockerKept(p) == p

\* ExecutionQueue.run: the holder of the queue lock once the block
\* 'with self._locker()' is left (0: nobody)
LockerExit(p) == 0

\* ExecutionQueue.run: with self._locker(), then the head of _dispatch_next
DispatchBegin(p) ==
    /\ qpc[p] = "lock" /\ locker = 0
    /\ IF NextCount <= 0
         THEN /\ qpc' = [qpc EXCEPT ![p] = "guard"]
              /\ UNCHANGED <<locker, queued, next_count>>
         ELSE /\ locker' = p
              /\ queued' = SortedByCreatedAt(Queued)
              /\ next_count' = NextCount
              /\ qpc' = [qpc EXCEPT ![p] = "dispatch"]
    /\ UNCHANGED <<run_state, qstate, current_wait, state_receiver, stop_requested, in_flight, signalled>>
    /\ dispatch_call' = [caller |-> p, executing |-> Cardinality(Executing),
                         signals |-> <<>>]
    /\ UNCHANGED <<pvars, bvars, svars, avars, wvars, nvars, rvars, tvars, evars>>

\* _dispatch_next: one iteration over group_jobs_sorted.queued, with the
\* target's ExecutionQueue.signal_dispatch; the lock is released on return
DispatchSignal(p) ==
    /\ qpc[p] = "dispatch" /\ locker = p
    /\ IF queued = <<>>
         THEN /\ locker' = LockerExit(p)
              /\ qpc' = [qpc EXCEPT ![p] = "guard"]
              /\ UNCHANGED <<qstate, queued, next_count, signalled, dispatch_call>>
         ELSE LET target == Head(queued)
                  executed == ~Dequeued(qstate[target])
                  left == IF executed THEN next_count - 1 ELSE next_count
              IN /\ qstate' = IF executed THEN [qstate EXCEPT ![target] = "DISPATCHED"]
                              ELSE qstate
                 /\ next_count' = left
                 /\ signalled' = [target |-> target, executed |-> executed]
                 /\ dispatch_call' = [dispatch_call EXCEPT
                        !.signals = Append(@, [target |-> target, executed |-> executed])]
                 /\ IF executed /\ left <= 0
                      THEN /\ locker' = LockerExit(p)
                           /\ queued' = <<>>
                           /\ qpc' = [(IF executed THEN Notified(qpc, target) ELSE qpc)
                                        EXCEPT ![p] = "guard"]
                      ELSE /\ queued' = Tail(queued)
                           /\ qpc' = IF executed THEN Notified(qpc, target) ELSE qpc
                           /\ UNCHANGED locker
    /\ UNCHANGED <<run_state, current_wait, state_receiver, stop_requested, in_flight>>
    /\ UNCHANGED <<pvars, bvars, svars, avars, wvars, nvars, rvars, tvars, evars>>

\* Phaser.stop while the queue phase is current: the stop status is set and
\* ExecutionQueue.stop is called
QueueStop(p) ==
    /\ run_state[p] = "IN_QUEUE" /\ ~stop_requested[p]
    /\ stop_requested' = [stop_requested EXCEPT ![p] = TRUE]
    /\ IF Dequeued(qstate[p])
         THEN UNCHANGED <<qstate, qpc>>
         ELSE /\ qstate' = [qstate EXCEPT ![p] = "CANCELLED"]
              /\ qpc' = Notified(qpc, p)
    /\ UNCHANGED <<run_state, current_wait, state_receiver, locker, queued, next_count,
                   in_flight, signalled>>
    /\ UNCHANGED dispatch_call
    /\ UNCHANGED <<pvars, bvars, svars, avars, wvars, nvars, rvars, tvars, evars>>

\* ExecutionQueue.run has returned: the Phaser enters the protected phase,
\* or the terminal phase when a stop status is set
Advance(p) ==
    /\ qpc[p] = "returned"
    /\ run_state' = [run_state EXCEPT ![p] =
                        IF qstate[p] = "DISPATCHED" /\ ~stop_requested[p]
                          THEN "EXECUTING" ELSE "ENDED"]
    /\ qpc' = [qpc EXCEPT ![p] = "done"]
    /\ UNCHANGED <<qstate, current_wait, state_receiver, stop_requested, locker, queued,
                   next_count, in_flight, signalled>>
    /\ UNCHANGED dispatch_call
    /\ UNCHANGED <<pvars, bvars, svars, avars, wvars, nvars, rvars, tvars, evars>>

\* the instance leaves its protected phase; the transition is sent to every
\* open transition listener
LeaveProtected(p) ==
    /\ run_state[p] = "EXECUTING"
    /\ run_state' = [run_state EXCEPT ![p] = "ENDED"]
    /\ in_flight' = in_flight \cup {q \in Peers : state_receiver[q]}
    /\ UNCHANGED <<qstate, current_wait, state_receiver, qpc, stop_requested, locker,
                   queued, next_count, signalled>>
    /\ UNCHANGED dispatch_call
    /\ UNCHANGED <<pvars, bvars, svars, avars, wvars, nvars, rvars, tvars, evars>>

\* ExecutionQueue.new_instance_phase for a transition out of a protected phase
NewInstancePhase(p) ==
    /\ p \in in_flight
    /\ in_flight' = in_flight \ {p}
    /\ IF state_receiver[p] /\ current_wait[p]
         THEN /\ current_wait' = [current_wait EXCEPT ![p] = FALSE]
              /\ state_receiver' = [state_receiver EXCEPT ![p] = FALSE]
              /\ qpc' = Notified(qpc, p)
         ELSE UNCHANGED <<current_wait, state_receiver, qpc>>
    /\ UNCHANGED <<run_state, qstate, stop_requested, locker, queued, next_count, signalled>>
    /\ UNCHANGED dispatch_call
    /\ UNCHANGED <<pvars, bvars, svars, avars, wvars, nvars, rvars, tvars, evars>>

QueueNext ==
    \E p \in Peers :
        \/ EnterQueue(p) \/ Guard(p) \/ DispatchBegin(p) \/ DispatchSignal(p)
        \/ QueueStop(p) \/ Advance(p) \/ LeaveProtected(p) \/ NewInstancePhase(p)

----------------------------------------------------------------------------
(***************************************************************************)
(* WaitingPhase: one thread in run(), one thread per condition delivering  *)
(* its result to _result_observer, one thread calling stop()               *)
(***************************************************************************)
Conditions == 1..NConditions

\* ConditionResult: the members, __bool__ and the success attribute
ConditionResults == {"NONE", "SATISFIED", "UNSATISFIED", "EVALUATION_ERROR"}
ResultBool(r) == r # "NONE"
ResultSuccess(r) == r = "SATISFIED"

\* WaitingPhase._result_observer: the loop under self._conditions_lock, from
\* condition i on; gives the local 'wait' and the value of self._term_status
RECURSIVE ScanConditions(_, _, _, _)
ScanConditions(results, i, wait, status) ==
    IF i > Len(results) THEN [wait |-> wait, status |-> status]
    ELSE IF ~ResultBool(results[i]) THEN ScanConditions(results, i + 1, TRUE, status)
    ELSE IF ~ResultSuccess(results[i]) THEN [wait |-> FALSE, status |-> "UNSATISFIED"]
    ELSE ScanConditions(results, i + 1, wait, status)

\* some condition has produced a non-success result
AnyFailed == \E c \in 1..w_count :
    ResultBool(cond_result[c]) /\ ~ResultSuccess(cond_result[c])
WaitStopCalled == w_stops > 0 \/ w_spc = "set"
NoStopFound == [called |-> FALSE, failed |-> FALSE, timed_out |-> FALSE, blocked |-> FALSE]

\* WaitingPhase.__init__; the timeout argument and the list of conditions are
\* drawn when run() reads them
WaitingInit ==
    /\ w_timeout = 0
    /\ w_count = 0
    /\ w_event = FALSE
    /\ w_term_status = "NONE"
    /\ w_pc = "idle" /\ w_idx = 1 /\ w_ret = "none"
    /\ cond_result = [c \in Conditions |-> "NONE"]
    /\ cond_listener = [c \in Conditions |-> FALSE]
    /\ cond_started = [c \in Conditions |-> FALSE]
    /\ cond_stopped = [c \in Conditions |-> FALSE]
    /\ obs_pc = [c \in Conditions |-> "idle"]
    /\ obs_wait = [c \in Conditions |-> FALSE]
    /\ w_spc = "idle" /\ w_stops = 0
    /\ w_resolved = "pending" /\ w_failed_at_release = FALSE
    /\ w_stop_found = NoStopFound

\* WaitingPhase.run is called
WaitingRun ==
    /\ w_pc = "idle"
    /\ w_timeout' \in Timeouts
    /\ w_count' \in 0..NConditions
    /\ w_pc' = "register"
    /\ UNCHANGED <<w_event, w_term_status, w_idx, w_ret, cond_result, cond_listener,
                   cond_started, cond_stopped, obs_pc, obs_wait, w_spc, w_stops,
                   w_resolved, w_failed_at_release, w_stop_found>>
    /\ UNCHANGED <<pvars, bvars, qvars, svars, avars, nvars, rvars, tvars, evars>>

\* WaitingPhase.run: one round of the loop over the conditions
\* (add_result_listener, start_evaluating)
WaitingRegister ==
    /\ w_pc = "register"
    /\ IF w_idx <= w_count
       THEN /\ cond_listener' = [cond_listener EXCEPT ![w_idx] = TRUE]
            /\ cond_started' = [cond_started EXCEPT ![w_idx] = TRUE]
            /\ w_idx' = w_idx + 1
            /\ UNCHANGED w_pc
       ELSE /\ w_pc' = "wait"
            /\ UNCHANGED <<cond_listener, cond_started, w_idx>>
    /\ UNCHANGED <<w_timeout, w_count, w_event, w_term_status, w_ret, cond_result, cond_stopped,
                   obs_pc, obs_wait, w_spc, w_stops, w_resolved, w_failed_at_release,
                   w_stop_found>>
    /\ UNCHANGED <<pvars, bvars, qvars, svars, avars, nvars, rvars, tvars, evars>>

\* self._event.wait(self._timeout or None) returns True: the flag is set
WaitingWaitSet ==
    /\ w_pc = "wait" /\ w_event
    /\ w_resolved' = "released"
    /\ w_failed_at_release' = AnyFailed
    /\ w_pc' = "stop_all"
    /\ UNCHANGED <<w_timeout, w_count, w_event, w_term_status, w_idx, w_ret, cond_result,
                   cond_listener, cond_started, cond_stopped, obs_pc, obs_wait, w_spc,
                   w_stops, w_stop_found>>
    /\ UNCHANGED <<pvars, bvars, qvars, svars, avars, nvars, rvars, tvars, evars>>

\* self._event.wait(self._timeout or None) returns False: the timeout has
\* elapsed with the flag not set
WaitingWaitTimeout ==
    /\ w_pc = "wait" /\ ~w_event /\ w_timeout # 0
    /\ w_resolved' = "timeout"
    /\ w_failed_at_release' = AnyFailed
    /\ w_pc' = "timeout"
    /\ UNCHANGED <<w_timeout, w_count, w_event, w_term_status, w_idx, w_ret, cond_result,
                   cond_listener, cond_started, cond_stopped, obs_pc, obs_wait, w_spc,
                   w_stops, w_stop_found>>
    /\ UNCHANGED <<pvars, bvars, qvars, svars, avars, nvars, rvars, tvars, evars>>

\* WaitingPhase.run: self._term_status = TerminationStatus.TIMEOUT (written
\* without self._conditions_lock)
WaitingSetTimeout ==
    /\ w_pc = "timeout"
    /\ w_term_status' = "TIMEOUT"
    /\ w_pc' = "stop_all"
    /\ UNCHANGED <<w_timeout, w_count, w_event, w_idx, w_ret, cond_result, cond_listener,
                   cond_started, cond_stopped, obs_pc, obs_wait, w_spc, w_stops,
                   w_resolved, w_failed_at_release, w_stop_found>>
    /\ UNCHANGED <<pvars, bvars, qvars, svars, avars, nvars, rvars, tvars, evars>>

\* WaitingPhase.run: self._stop_all()
WaitingStopAll ==
    /\ w_pc = "stop_all"
    /\ cond_stopped' = [c \in Conditions |-> TRUE]
    /\ w_pc' = "test"
    /\ UNCHANGED <<w_timeout, w_count, w_event, w_term_status, w_idx, w_ret, cond_result,
                   cond_listener, cond_started, obs_pc, obs_wait, w_spc, w_stops,
                   w_resolved, w_failed_at_release, w_stop_found>>
    /\ UNCHANGED <<pvars, bvars, qvars, svars, avars, nvars, rvars, tvars, evars>>

\* WaitingPhase.run: if self._term_status: raise TerminateRun(self._term_status)
WaitingTest ==
    /\ w_pc = "test"
    /\ w_ret' = IF w_term_status # "NONE" THEN w_term_status ELSE "returned"
    /\ w_pc' = "done"
    /\ UNCHANGED <<w_timeout, w_count, w_event, w_term_status, w_idx, cond_result, cond_listener,
                   cond_started, cond_stopped, obs_pc, obs_wait, w_spc, w_stops,
                   w_resolved, w_failed_at_release, w_stop_found>>
    /\ UNCHANGED <<pvars, bvars, qvars, svars, avars, nvars, rvars, tvars, evars>>

\* a condition that is evaluating produces its result and calls its listener;
\* ObservableCondition.stop does nothing, so a stopped condition may still do so
ConditionDelivers(c, r) ==
    /\ cond_started[c] /\ cond_listener[c]
    /\ cond_result[c] = "NONE"
    /\ cond_result' = [cond_result EXCEPT ![c] = r]
    /\ obs_pc' = [obs_pc EXCEPT ![c] = "scan"]
    /\ UNCHANGED <<w_timeout, w_count, w_event, w_term_status, w_pc, w_idx, w_ret, cond_listener,
                   cond_started, cond_stopped, obs_wait, w_spc, w_stops, w_resolved,
                   w_failed_at_release, w_stop_found>>
    /\ UNCHANGED <<pvars, bvars, qvars, svars, avars, nvars, rvars, tvars, evars>>

\* a condition that already has its result when run() registers the listener:
\* the result was produced before add_result_listener, no listener is called
ConditionResultEarly(c, r) ==
    /\ w_pc = "register" /\ w_idx <= c /\ c <= w_count
    /\ cond_result[c] = "NONE"
    /\ cond_result' = [cond_result EXCEPT ![c] = r]
    /\ UNCHANGED <<w_timeout, w_count, w_event, w_term_status, w_pc, w_idx, w_ret,
                   cond_listener, cond_started, cond_stopped, obs_pc, obs_wait, w_spc,
                   w_stops, w_resolved, w_failed_at_release, w_stop_found>>
    /\ UNCHANGED <<pvars, bvars, qvars, svars, avars, nvars, rvars, tvars, evars>>

\* WaitingPhase._result_observer: the block under self._conditions_lock
ObserverScan(c) ==
    /\ obs_pc[c] = "scan"
    /\ LET found == ScanConditions(SubSeq(cond_result, 1, w_count), 1, FALSE,
                                   w_term_status)
       IN /\ w_term_status' = found.status
          /\ obs_wait' = [obs_wait EXCEPT ![c] = found.wait]
    /\ obs_pc' = [obs_pc EXCEPT ![c] = "set"]
    /\ UNCHANGED <<w_timeout, w_count, w_event, w_pc, w_idx, w_ret, cond_result, cond_listener,
                   cond_started, cond_stopped, w_spc, w_stops, w_resolved,
                   w_failed_at_release, w_stop_found>>
    /\ UNCHANGED <<pvars, bvars, qvars, svars, avars, nvars, rvars, tvars, evars>>

\* WaitingPhase._result_observer: if not wait: self._event.set()
ObserverSet(c) ==
    /\ obs_pc[c] = "set"
    /\ w_event' = (w_event \/ ~obs_wait[c])
    /\ obs_pc' = [obs_pc EXCEPT ![c] = "done"]
    /\ UNCHANGED <<w_timeout, w_count, w_term_status, w_pc, w_idx, w_ret, cond_result,
                   cond_listener, cond_started, cond_stopped, obs_wait, w_spc, w_stops,
                   w_resolved, w_failed_at_release, w_stop_found>>
    /\ UNCHANGED <<pvars, bvars, qvars, svars, avars, nvars, rvars, tvars, evars>>

\* WaitingPhase.stop: self._stop_all()
WaitingStopConditions ==
    /\ w_spc = "idle" /\ w_stops < MaxStops
    /\ cond_stopped' = [c \in Conditions |-> TRUE]
    /\ w_stop_found' =
          IF w_stop_found.called THEN w_stop_found
          ELSE [called |-> TRUE, failed |-> AnyFailed,
                timed_out |-> w_resolved = "timeout",
                blocked |-> w_pc \in {"register", "wait"}]
    /\ w_spc' = "set"
    /\ UNCHANGED <<w_timeout, w_count, w_event, w_term_status, w_pc, w_idx, w_ret, cond_result,
                   cond_listener, cond_started, obs_pc, obs_wait, w_stops, w_resolved,
                   w_failed_at_release>>
    /\ UNCHANGED <<pvars, bvars, qvars, svars, avars, nvars, rvars, tvars, evars>>

\* WaitingPhase.stop: self._event.set()
WaitingStopSet ==
    /\ w_spc = "set"
    /\ w_event' = TRUE
    /\ w_stops' = w_stops + 1
    /\ w_spc' = "idle"
    /\ UNCHANGED <<w_timeout, w_count, w_term_status, w_pc, w_idx, w_ret, cond_result,
                   cond_listener, cond_started, cond_stopped, obs_pc, obs_wait,
                   w_resolved, w_failed_at_release, w_stop_found>>
    /\ UNCHANGED <<pvars, bvars, qvars, svars, avars, nvars, rvars, tvars, evars>>

WaitingNext ==
    \/ WaitingRun \/ WaitingRegister \/ WaitingWaitSet \/ WaitingWaitTimeout
    \/ WaitingSetTimeout \/ WaitingStopAll \/ WaitingTest
    \/ \E c \in Conditions :
        \/ \E r \in ConditionResults \ {"NONE"} : ConditionDelivers(c, r)
        \/ ObserverScan(c) \/ ObserverSet(c)
    \/ WaitingStopConditions \/ WaitingStopSet

\* the same with conditions that have their result before the listener is there
EarlyWaitingNext ==
    \/ WaitingNext
    \/ \E c \in Conditions, r \in ConditionResults \ {"NONE"} : ConditionResultEarly(c, r)

----------------------------------------------------------------------------
(***************************************************************************)
(* NoOverlapPhase                                                          *)
(***************************************************************************)
OverlapRuns == 1..NOverlapRuns
NoLockHolder == 0

\* r.run.in_protected_phase('no_overlap', no_overlap_id): the run has
\* completed its no-overlap check and has not left the protected phases
InProtectedPhase(r) == noo_pc[r] = "protected"

\* the runs get_active_runs gives to run r that are in the protected phase
ProtectedRuns(r) == {o \in OverlapRuns \ {r} : InProtectedPhase(o)}

\* how run() ends, never raising
MutOverlapOutcomeNeverRaises(found) == "returned"

\* NoOverlapPhase.run: raise TerminateRun(OVERLAP) if any(...), else return
OverlapOutcome(found) == IF found THEN "OVERLAP" ELSE "returned"

NoOverlapInit ==
    /\ noo_lock = NoLockHolder
    /\ noo_pc = [r \in OverlapRuns |-> "created"]
    /\ noo_found = [r \in OverlapRuns |-> FALSE]
    /\ noo_ret = [r \in OverlapRuns |-> "none"]
    /\ noo_holder_at_check = [r \in OverlapRuns |-> NoLockHolder]
    /\ noo_seen = [r \in OverlapRuns |-> {}]

\* NoOverlapPhase.run is called and reaches 'with self._locker()'
NoOverlapRun(r) ==
    /\ noo_pc[r] = "created"
    /\ noo_pc' = [noo_pc EXCEPT ![r] = "acquire"]
    /\ UNCHANGED <<noo_lock, noo_found, noo_ret, noo_holder_at_check, noo_seen>>
    /\ UNCHANGED <<pvars, bvars, qvars, svars, avars, wvars, rvars, tvars, evars>>

\* with self._locker(): the lock is acquired when no other process holds it
NoOverlapAcquire(r) ==
    /\ noo_pc[r] = "acquire"
    /\ noo_lock = NoLockHolder
    /\ noo_lock' = r
    /\ noo_pc' = [noo_pc EXCEPT ![r] = "locked"]
    /\ UNCHANGED <<noo_found, noo_ret, noo_holder_at_check, noo_seen>>
    /\ UNCHANGED <<pvars, bvars, qvars, svars, avars, wvars, rvars, tvars, evars>>

\* get_active_runs(c) and any(r for r in runs if r.run.in_protected_phase(...))
NoOverlapCheck(r) ==
    /\ noo_pc[r] = "locked"
    /\ noo_found' = [noo_found EXCEPT ![r] = ProtectedRuns(r) # {}]
    /\ noo_holder_at_check' = [noo_holder_at_check EXCEPT ![r] = noo_lock]
    /\ noo_seen' = [noo_seen EXCEPT ![r] = ProtectedRuns(r)]
    /\ noo_pc' = [noo_pc EXCEPT ![r] = "checked"]
    /\ UNCHANGED <<noo_lock, noo_ret>>
    /\ UNCHANGED <<pvars, bvars, qvars, svars, avars, wvars, rvars, tvars, evars>>

\* the with block is left, by the raise or at its end: the lock is released
\* and run() raises TerminateRun(OVERLAP) or returns
NoOverlapExit(r) ==
    /\ noo_pc[r] = "checked"
    /\ noo_lock' = NoLockHolder
    /\ noo_ret' = [noo_ret EXCEPT ![r] = OverlapOutcome(noo_found[r])]
    /\ noo_pc' = [noo_pc EXCEPT ![r] =
                     IF OverlapOutcome(noo_found[r]) = "OVERLAP" THEN "ended" ELSE "completed"]
    /\ UNCHANGED <<noo_found, noo_holder_at_check, noo_seen>>
    /\ UNCHANGED <<pvars, bvars, qvars, svars, avars, wvars, rvars, tvars, evars>>

\* the run whose check completed moves on to the next (protected) phase
EnterProtected(r) ==
    /\ noo_pc[r] = "completed"
    /\ noo_pc' = [noo_pc EXCEPT ![r] = "protected"]
    /\ UNCHANGED <<noo_lock, noo_found, noo_ret, noo_holder_at_check, noo_seen>>
    /\ UNCHANGED <<pvars, bvars, qvars, svars, avars, wvars, rvars, tvars, evars>>

\* the run leaves the protected phases (protected_until) or ends
LeaveProtectedPhase(r) ==
    /\ noo_pc[r] = "protected"
    /\ noo_pc' = [noo_pc EXCEPT ![r] = "ended"]
    /\ UNCHANGED <<noo_lock, noo_found, noo_ret, noo_holder_at_check, noo_seen>>
    /\ UNCHANGED <<pvars, bvars, qvars, svars, avars, wvars, rvars, tvars, evars>>

NoOverlapNext ==
    \E r \in OverlapRuns :
        \/ NoOverlapRun(r) \/ NoOverlapAcquire(r) \/ NoOverlapCheck(r) \/ NoOverlapExit(r)
        \/ EnterProtected(r) \/ LeaveProtectedPhase(r)

----------------------------------------------------------------------------
(***************************************************************************)
(* APIServer: handle() of one request at a time on the server thread,      *)
(* register_instance / unregister_instance from the instances' threads     *)
(***************************************************************************)
\* ErrorCode
PARSE_ERROR == -32700
INVALID_REQUEST == -32600
METHOD_NOT_FOUND == -32601
INVALID_PARAMS == -32602
INTERNAL_ERROR == -32603
PHASE_OP_NOT_FOUND == 1
PHASE_OP_INVALID_ARGS == 2
METHOD_EXECUTION_ERROR == 100
INSTANCE_NOT_FOUND == 200
PHASE_NOT_FOUND == 201

\* JSON values as json.loads gives them: the Python type and the text
JNull == [t |-> "null", v |-> ""]
JStr(x) == [t |-> "str", v |-> x]
JInt(x) == [t |-> "int", v |-> x]
JList(x) == [t |-> "list", v |-> x]
JDict(x) == [t |-> "dict", v |-> x]
\* a member the request object does not have
Absent == [t |-> "absent", v |-> ""]

\* Python truth value of a JSON value ('if request_id:')
Truthy(x) ==
    /\ x.t \notin {"null", "absent"}
    /\ ~(x.t = "str" /\ x.v = "")
    /\ ~(x.t = "int" /\ x.v = "0")
    /\ ~(x.t = "list" /\ x.v = "[]")
    /\ ~(x.t = "dict" /\ x.v = "{}")

\* dict.get(key): None for a missing key
Get(member) == IF member.t = "absent" THEN JNull ELSE member

\* the params member: a mapping (names and values), a sequence (values), or
\* another JSON value
Mapping(names, vals) == [t |-> "dict", names |-> names, vals |-> vals]
Sequence(vals) == [t |-> "list", names |-> <<>>, vals |-> vals]
OtherParams(t) == [t |-> t, names |-> <<>>, vals |-> <<>>]
NoParams == OtherParams("absent")
NullParams == OtherParams("null")

\* instance objects and their instance ids; the last object has the id of
\* the first one (a new instance of the same id)
Instances == 1..NInstances
NoInstance == 0
InstanceIds == 1..NInstanceIds
IdNames == <<"i1", "i2", "i3", "i4">>
IdName(k) == IdNames[k]
InstanceIdOf(inst) == IdName(((inst - 1) % NInstanceIds) + 1)
RegisteredIds == {IdName(k) : k \in InstanceIds}
UnknownId == "i9"

\* MethodParameter(name, param_type, required, default)
MethodParameter(name, param_type, required, default) ==
    [name |-> name, param_type |-> param_type, required |-> required, default |-> default]
RUN_MATCH_PARAM == MethodParameter("run_match", "dict", TRUE, JNull)
INSTANCE_ID_PARAM == MethodParameter("instance_id", "str", TRUE, JNull)

\* DEFAULT_METHODS: method_name, type and parameters of each method
MethodNames == {"get_instances", "stop_instance", "get_output_tail", "exec_phase_control"}
MethodType(method) == IF method = "get_instances" THEN "COLLECTION" ELSE "INSTANCE"
Parameters(method) ==
    CASE method = "get_instances" -> <<RUN_MATCH_PARAM>>
      [] method = "stop_instance" -> <<INSTANCE_ID_PARAM>>
      [] method = "get_output_tail" ->
            <<INSTANCE_ID_PARAM, MethodParameter("max_lines", "int", FALSE, JInt("100"))>>
      [] method = "exec_phase_control" ->
            <<INSTANCE_ID_PARAM,
              MethodParameter("phase_id", "str", TRUE, JNull),
              MethodParameter("op_name", "str", TRUE, JNull),
              MethodParameter("op_args", "list", FALSE, JList("[]"))>>

\* _is_valid_request_id, _is_valid_params
_is_valid_request_id(request_id) == request_id.t \in {"null", "str", "int", "float"}
_is_valid_params(params) == params.t \in {"null", "dict", "list"}

\* what handle() gives back: the response object, or the exception raised
NoResult == [kind |-> "none", val |-> ""]
Result(kind, val) == [kind |-> kind, val |-> val]
Response(request_id, has_result, result, has_error, code) ==
    [raised |-> "none",
     has_id |-> Truthy(request_id),
     id |-> IF Truthy(request_id) THEN request_id ELSE JNull,
     has_result |-> has_result, result |-> result,
     has_error |-> has_error, code |-> code]
Raised(exception) ==
    [raised |-> exception, has_id |-> FALSE, id |-> JNull,
     has_result |-> FALSE, result |-> NoResult, has_error |-> FALSE, code |-> 0]
NoResponse == Raised("nothing")

\* _success_response, _error_response
_success_response(request_id, result) == Response(request_id, TRUE, result, FALSE, 0)
_error_response(request_id, code) == Response(request_id, FALSE, NoResult, TRUE, code)

\* outcome of validate_params: the list, or the exception raised
Validated(args) == [exc |-> "none", code |-> 0, args |-> args]
JsonRpcError(code) == [exc |-> "JsonRpcError", code |-> code, args |-> <<>>]
OtherError(exception) == [exc |-> exception, code |-> 0, args |-> <<>>]
NotValidated == OtherError("not called")

\* arguments.get(param.name) on the named arguments
ArgumentOf(arguments, name) ==
    IF \E i \in DOMAIN arguments.names : arguments.names[i] = name
    THEN arguments.vals[CHOOSE i \in DOMAIN arguments.names : arguments.names[i] = name]
    ELSE JNull

IsInstance(value, param_type) == value.t = param_type

\* validate_params: the loop over zip_longest(parameters, arguments), from
\* position i on
RECURSIVE ValidateFrom(_, _, _, _)
ValidateFrom(parameters, arguments, i, validated_args) ==
    IF i > Len(parameters) /\ i > Len(arguments) THEN Validated(validated_args)
    ELSE IF i > Len(parameters) THEN JsonRpcError(INVALID_PARAMS)
    ELSE LET param == parameters[i]
             value == IF i > Len(arguments) THEN JNull ELSE arguments[i]
         IN IF value = JNull
            THEN IF param.required /\ param.default = JNull
                 THEN JsonRpcError(INVALID_PARAMS)
                 ELSE ValidateFrom(parameters, arguments, i + 1,
                                   Append(validated_args, param.default))
            ELSE IF ~IsInstance(value, param.param_type)
                 THEN JsonRpcError(INVALID_PARAMS)
                 ELSE ValidateFrom(parameters, arguments, i + 1,
                                   Append(validated_args, value))

\* validate_params(parameters, arguments); zip_longest raises TypeError when
\* arguments is None
validate_params(parameters, arguments) ==
    IF arguments.t = "dict"
    THEN LET unknown_params ==
                 ({arguments.names[i] : i \in DOMAIN arguments.names} \ {"run_match"})
                 \ {parameters[i].name : i \in DOMAIN parameters}
         IN IF unknown_params # {}
            THEN JsonRpcError(INVALID_PARAMS)
            ELSE ValidateFrom(parameters,
                              [i \in DOMAIN parameters |->
                                   ArgumentOf(arguments, parameters[i].name)],
                              1, <<>>)
    ELSE IF arguments.t = "list"
    THEN ValidateFrom(parameters, arguments.vals, 1, <<>>)
    ELSE OtherError("TypeError")

\* what a phase operation does when it is called with fitting arguments
OpBehaviours == {"returns", "TypeError", "AttributeError", "JsonRpcError", "Exception"}

\* job_instance.get_phase_control(phase_id): every instance has the phase
\* 'approval'; getattr(control, op_name, None): its control has the operation
\* 'approve', without arguments
HasPhaseControl(phase_id) == phase_id.v = "approval"
HasOperation(op_name) == op_name.v = "approve"
FitsOperation(op_args) == op_args.v = "[]"

\* the error code for an exception of the called operation, every exception
\* but JsonRpcError and TypeError taken as a failed execution
MutOperationErrorAsClaimed(exception) ==
    CASE exception = "TypeError" -> PHASE_OP_INVALID_ARGS
      [] exception = "JsonRpcError" -> INSTANCE_NOT_FOUND
      [] OTHER -> METHOD_EXECUTION_ERROR

\* PhaseControlMethod.execute and handle(): the error code for an exception
\* raised by operation(*op_args)
OperationError(exception) ==
    CASE exception = "AttributeError" -> METHOD_NOT_FOUND
      [] exception = "TypeError" -> PHASE_OP_INVALID_ARGS
      [] exception = "JsonRpcError" -> INSTANCE_NOT_FOUND
      [] OTHER -> METHOD_EXECUTION_ERROR

\* the outcome of one step of handle(): the response, and for the history
\* the instance execute was invoked on and what the operation did
Out(response, inst, did) == [response |-> response, executed_on |-> inst, op_did |-> did]

\* PhaseControlMethod.execute
PhaseControlExecute(request_id, inst, phase_id, op_name, op_args, behaviour) ==
    IF ~HasPhaseControl(phase_id)
    THEN Out(_error_response(request_id, PHASE_NOT_FOUND), inst, "not called")
    ELSE IF ~HasOperation(op_name)
    THEN Out(_error_response(request_id, PHASE_OP_NOT_FOUND), inst, "not called")
    ELSE IF ~FitsOperation(op_args)
    THEN Out(_error_response(request_id, PHASE_OP_INVALID_ARGS), inst, "wrong arguments")
    ELSE IF behaviour = "returns"
    THEN Out(_success_response(request_id, Result("retval", "None")), inst, behaviour)
    ELSE Out(_error_response(request_id, OperationError(behaviour)), inst, behaviour)

\* the instances InstancesStopMethod.execute calls stop() on: every instance
MutStopTargetsAll(inst) == Instances

\* InstancesStopMethod.execute: job_instance.stop()
StopTargets(inst) == {inst}

\* self._job_instances[instance_id], always the first instance of that id
MutLookupFirstOfId(instances, instance_id) ==
    IF instance_id \in RegisteredIds
    THEN CHOOSE inst \in Instances : InstanceIdOf(inst) = instance_id
    ELSE NoInstance

\* self._job_instances[instance_id]; NoInstance stands for KeyError
LookupInstance(instances, instance_id) ==
    IF instance_id \in DOMAIN instances THEN instances[instance_id] ELSE NoInstance

\* handle(): the try block, for a known method
Dispatch(request_id, method, params, instances, behaviour) ==
    LET v == validate_params(Parameters(method), params)
    IN IF v.exc = "JsonRpcError"
       THEN Out(_error_response(request_id, v.code), NoInstance, "not called")
       ELSE IF v.exc # "none"
       THEN Out(_error_response(request_id, METHOD_EXECUTION_ERROR), NoInstance, "not called")
       ELSE IF MethodType(method) = "INSTANCE"
       THEN LET job_instance == LookupInstance(instances, v.args[1].v)
            IN IF job_instance = NoInstance
               THEN Out(_error_response(request_id, METHOD_NOT_FOUND), NoInstance,
                        "not called")
               ELSE IF method = "stop_instance"
               THEN Out(_success_response(request_id, Result("stop_result", "STOP_INITIATED")),
                        job_instance, "not called")
               ELSE IF method = "get_output_tail"
               THEN Out(_success_response(request_id, Result("tail", "")),
                        job_instance, "not called")
               ELSE PhaseControlExecute(request_id, job_instance, v.args[2], v.args[3],
                                        v.args[4], behaviour)
       \* COLLECTION: _matching_instances raises INVALID_PARAMS for criteria that
       \* do not deserialize; otherwise it iterates the keys of the registry
       \* and execute() receives the list: list has no snapshot(), the
       \* AttributeError is caught by 'except Exception'
       ELSE IF v.args[1].v = "bad"
       THEN Out(_error_response(request_id, INVALID_PARAMS), NoInstance, "not called")
       ELSE Out(_error_response(request_id, METHOD_EXECUTION_ERROR), NoInstance,
                "not called")

\* APIServer.handle
HandleRequest(req, instances, behaviour) ==
    IF req.form = "malformed"
    THEN Out(_error_response(JNull, PARSE_ERROR), NoInstance, "not called")
    ELSE IF req.form # "object"
    \* req_data.get('id') on a list, number, string or None
    THEN Out(Raised("AttributeError"), NoInstance, "not called")
    ELSE IF Get(req.jsonrpc) # JStr("2.0") \/ req.method.t = "absent"
    THEN Out(_error_response(Get(req.id), INVALID_REQUEST), NoInstance, "not called")
    ELSE LET request_id == Get(req.id)
             params == IF req.params.t = "absent" THEN Mapping(<<>>, <<>>) ELSE req.params
         IN IF ~_is_valid_request_id(request_id)
            THEN Out(_error_response(request_id, INVALID_REQUEST), NoInstance, "not called")
            ELSE IF ~_is_valid_params(params)
            THEN Out(_error_response(request_id, INVALID_REQUEST), NoInstance, "not called")
            \* self._methods.get(method_name) with an unhashable method_name
            ELSE IF req.method.t \in {"list", "dict"}
            THEN Out(Raised("TypeError"), NoInstance, "not called")
            ELSE IF req.method.t # "str" \/ req.method.v \notin MethodNames
            THEN Out(_error_response(request_id, METHOD_NOT_FOUND), NoInstance, "not called")
            ELSE Dispatch(request_id, req.method.v, params, instances, behaviour)

\* the outcome of validate_params in handle(), when handle() reaches it
ValidationOf(req) ==
    IF /\ req.form = "object"
       /\ Get(req.jsonrpc) = JStr("2.0")
       /\ _is_valid_request_id(Get(req.id))
       /\ req.params.t \in {"absent", "null", "dict", "list"}
       /\ req.method.t = "str" /\ req.method.v \in MethodNames
    THEN validate_params(Parameters(req.method.v),
                         IF req.params.t = "absent" THEN Mapping(<<>>, <<>>) ELSE req.params)
    ELSE NotValidated

\* the requests sent to the server
Request(form, jsonrpc, method, id, params) ==
    [form |-> form, jsonrpc |-> jsonrpc, method |-> method, id |-> id, params |-> params]
NoRequest == Request("none", Absent, Absent, Absent, NoParams)
RequestIds ==
    {Absent, JNull, JInt("0"), JInt("7"), JStr(""), JStr("a"), JList("[]")}
InstanceIdArguments ==
    {JStr(IdName(k)) : k \in InstanceIds} \cup {JStr(UnknownId), JInt("5")}
ForFirst(names, vals) == Mapping(<<"instance_id">> \o names, <<JStr(IdName(1))>> \o vals)
CommonShapes ==
    {NoParams, NullParams, OtherParams("int"), Mapping(<<>>, <<>>), Sequence(<<>>)}
InstanceShapes ==
    {Mapping(<<"instance_id">>, <<a>>) : a \in InstanceIdArguments}
    \cup {Sequence(<<a>>) : a \in InstanceIdArguments}
    \cup {ForFirst(<<"bogus">>, <<JStr("x")>>),
          ForFirst(<<"run_match">>, <<JDict("{}")>>),
          Sequence(<<JStr(IdName(1)), JInt("5")>>)}
ShapesFor(method) ==
    CommonShapes \cup
    CASE method = "get_instances" ->
            {Mapping(<<"run_match">>, <<c>>) :
                c \in {JDict("{}"), JDict("j1"), JDict("bad"), JStr("j1")}}
            \cup {Sequence(<<JDict("j1")>>), ForFirst(<<>>, <<>>)}
      [] method = "stop_instance" -> InstanceShapes
      [] method = "get_output_tail" ->
            {Mapping(<<"instance_id">>, <<a>>) : a \in InstanceIdArguments}
            \cup {Sequence(<<JStr(IdName(1)), JInt("5")>>),
                  ForFirst(<<"max_lines">>, <<JInt("5")>>),
                  ForFirst(<<"max_lines">>, <<JStr("5")>>),
                  Sequence(<<JStr(IdName(1)), JNull>>)}
      [] method = "exec_phase_control" ->
            {Mapping(<<"instance_id", "phase_id", "op_name">>,
                     <<a, JStr("approval"), JStr("approve")>>) : a \in InstanceIdArguments}
            \cup {ForFirst(<<"phase_id", "op_name">>, <<JStr(ph), JStr(op)>>) :
                    ph \in {"approval", "nophase"}, op \in {"approve", "noop"}}
            \cup {ForFirst(<<"phase_id", "op_name", "op_args">>,
                           <<JStr("approval"), JStr("approve"), a>>) :
                    a \in {JList("[]"), JList("[x]"), JStr("x")}}
            \cup {Sequence(<<JStr(IdName(1)), JStr("approval"), JStr("approve"),
                             JList("[]")>>),
                  Sequence(<<JStr(IdName(1)), JStr("approval"), JStr("approve"),
                             JList("[]"), JStr("extra")>>)}
Requests ==
    {Request(form, Absent, Absent, Absent, NoParams) : form \in {"malformed", "list", "number"}}
    \cup {Request("object", j, JStr("stop_instance"), JInt("7"), NoParams) :
            j \in {JStr("1.0"), Absent}}
    \cup {Request("object", JStr("2.0"), m, id, NoParams) :
            m \in {Absent, JInt("1"), JList("[]")}, id \in {Absent, JInt("7")}}
    \cup {Request("object", JStr("2.0"), JStr(m), id, ForFirst(<<>>, <<>>)) :
            m \in {"stop_instance", "no_such_method"}, id \in RequestIds}
    \cup UNION {{Request("object", JStr("2.0"), JStr(m), JInt("7"), p) : p \in ShapesFor(m)} :
                   m \in MethodNames}

\* the instance_id argument of a request: the member of that name, or the
\* first positional argument
InstanceIdArgument(req) ==
    IF req.params.t = "dict" THEN ArgumentOf(req.params, "instance_id")
    ELSE IF req.params.t = "list" /\ Len(req.params.vals) > 0 THEN req.params.vals[1]
    ELSE JNull

\* the instance registered under the request's instance_id when handle() runs
RegisteredFor(req) ==
    IF \E inst \in Instances :
          /\ InstanceIdOf(inst) \in DOMAIN job_instances
          /\ job_instances[InstanceIdOf(inst)] = inst
          /\ InstanceIdArgument(req) = JStr(InstanceIdOf(inst))
    THEN CHOOSE inst \in Instances :
          /\ InstanceIdOf(inst) \in DOMAIN job_instances
          /\ job_instances[InstanceIdOf(inst)] = inst
          /\ InstanceIdArgument(req) = JStr(InstanceIdOf(inst))
    ELSE NoInstance

\* the behaviours of the phase operation that a request can meet
BehavioursFor(req) ==
    IF req.method = JStr("exec_phase_control") THEN OpBehaviours ELSE {"returns"}

\* Instance.stop(): the run gets a stop termination unless it has ended
StopTermination(status) == IF status = "NONE" THEN "STOPPED" ELSE status

\* APIServer.__init__
ApiInit ==
    /\ job_instances = [id \in {} |-> NoInstance]
    /\ inst_stops = [inst \in Instances |-> 0]
    /\ inst_term = [inst \in Instances |-> "NONE"]
    /\ api_calls = 0
    /\ last_req = NoRequest /\ last_resp = NoResponse
    /\ validated = NotValidated /\ executed_on = NoInstance /\ op_did = "not called"
    /\ registered_then = NoInstance
    /\ before = [stops |-> [inst \in Instances |-> 0],
                 term |-> [inst \in Instances |-> "NONE"]]
    /\ last_removed = ""

\* APIServer.register_instance; the registry changes until the last request
\* of the run has been handled
register_instance(job_instance) ==
    /\ api_calls < MaxRequests
    /\ job_instances' =
          [id \in DOMAIN job_instances \cup {InstanceIdOf(job_instance)} |->
              IF id = InstanceIdOf(job_instance) THEN job_instance ELSE job_instances[id]]
    /\ UNCHANGED <<inst_stops, inst_term, api_calls, last_req, last_resp, validated,
                   executed_on, op_did, registered_then, before, last_removed>>
    /\ UNCHANGED <<pvars, bvars, qvars, svars, avars, wvars, nvars, tvars, evars>>

\* APIServer.unregister_instance: del raises KeyError for an id without key
unregister_instance(job_instance) ==
    /\ api_calls < MaxRequests
    /\ InstanceIdOf(job_instance) \in DOMAIN job_instances
    /\ job_instances' =
          [id \in DOMAIN job_instances \ {InstanceIdOf(job_instance)} |-> job_instances[id]]
    /\ last_removed' = InstanceIdOf(job_instance)
    /\ UNCHANGED <<inst_stops, inst_term, api_calls, last_req, last_resp, validated,
                   executed_on, op_did, registered_then, before>>
    /\ UNCHANGED <<pvars, bvars, qvars, svars, avars, wvars, nvars, tvars, evars>>

\* APIServer.handle, with the effect of method.execute on the instances
handle(req, behaviour) ==
    /\ api_calls < MaxRequests
    /\ api_calls' = api_calls + 1
    /\ \E out \in {HandleRequest(req, job_instances, behaviour)} :
       \E stopped \in {IF /\ out.executed_on # NoInstance
                           /\ out.response.result.kind = "stop_result"
                        THEN StopTargets(out.executed_on) ELSE {}} :
          /\ last_req' = req
          /\ last_resp' = out.response
          /\ executed_on' = out.executed_on
          /\ op_did' = out.op_did
          /\ inst_stops' = [inst \in Instances |->
                               IF inst \in stopped THEN inst_stops[inst] + 1
                               ELSE inst_stops[inst]]
          /\ inst_term' = [inst \in Instances |->
                              IF inst \in stopped THEN StopTermination(inst_term[inst])
                              ELSE inst_term[inst]]
    /\ validated' = ValidationOf(req)
    /\ registered_then' = RegisteredFor(req)
    /\ before' = [stops |-> inst_stops, term |-> inst_term]
    /\ UNCHANGED <<job_instances, last_removed>>
    /\ UNCHANGED <<pvars, bvars, qvars, svars, avars, wvars, nvars, tvars, evars>>

ApiNext ==
    \/ \E job_instance \in Instances :
          register_instance(job_instance) \/ unregister_instance(job_instance)
    \/ \E req \in Requests : \E behaviour \in BehavioursFor(req) : handle(req, behaviour)

----------------------------------------------------------------------------
----------------------------------------------------------------------------
(***************************************************************************)
(* Phaser.wait_for_transition: one waiting thread next to the driver and   *)
(* the stopper                                                             *)
(***************************************************************************)
\* run states of the phase runs, RunState.NONE included
InitRunState == "CREATED"
TerminalRunState == "ENDED"
DeclaredRunStates == {"PENDING", "EXECUTING", "NONE"}

\* phase.run_state: the sentinels as constructed; a declared phase has the
\* run state it was built with (RunState.NONE for the phase none_phase,
\* PENDING for another coordination phase, EXECUTING for the last phase)
RunStateOf(phase, none_phase) ==
    IF phase = InitId THEN InitRunState
    ELSE IF phase = TerminalId THEN TerminalRunState
    ELSE IF phase = none_phase THEN "NONE"
    ELSE IF phase = NPhases THEN "EXECUTING"
    ELSE "PENDING"

\* bool(run_state): RunState.NONE is falsy
RunStateGiven(state) == state # "NONE"

\* wait_for_transition, the scan of self._lifecycle.phase_runs:
\* run.phase_id == phase_id or run.run_state == run_state
MatchingRun(lc, phase_id, state, none_phase) ==
    \E i \in 1..Len(lc) :
        lc[i] = phase_id \/ RunStateOf(lc[i], none_phase) = state

NoWaitCall == [lifecycle |-> <<>>, timed_out |-> FALSE]

WaitInit ==
    /\ t_pc = "idle" /\ t_phase_id = NoPhase /\ t_run_state = "NONE" /\ t_timeout = 0
    /\ t_none_phase = NoPhase /\ t_len = 0 /\ t_ret = "none"
    /\ t_at_call = <<>> /\ t_at_return = NoWaitCall

\* wait_for_transition returns
WaitReturn(result, timed_out) ==
    /\ t_pc' = "done"
    /\ t_ret' = result
    /\ t_at_return' = [lifecycle |-> lifecycle, timed_out |-> timed_out]

\* under the lock: the scan, then return True or self._lock.wait(timeout)
WaitScan(phase_id, state, none_phase) ==
    IF MatchingRun(lifecycle, phase_id, state, none_phase)
      THEN /\ WaitReturn("True", FALSE)
           /\ UNCHANGED t_len
      ELSE /\ t_pc' = "waiting"
           /\ t_len' = Len(lifecycle)
           /\ UNCHANGED <<t_ret, t_at_return>>

\* wait_for_transition is called and takes the lock
WaitForTransition(phase_id, state, timeout, none_phase) ==
    /\ t_pc = "idle"
    /\ t_phase_id' = phase_id /\ t_run_state' = state /\ t_timeout' = timeout
    /\ t_none_phase' = none_phase
    /\ t_at_call' = lifecycle
    /\ WaitScan(phase_id, state, none_phase)
    /\ UNCHANGED <<pvars, bvars, qvars, svars, avars, wvars, nvars, rvars, evars>>

\* self._lock.wait: _next_phase called notify_all while the thread waited
WaitNotified ==
    /\ t_pc = "waiting" /\ Len(lifecycle) > t_len
    /\ t_pc' = "notified"
    /\ UNCHANGED <<t_phase_id, t_run_state, t_timeout, t_none_phase, t_len, t_ret,
                   t_at_call, t_at_return>>
    /\ UNCHANGED <<pvars, bvars, qvars, svars, avars, wvars, nvars, rvars, evars>>

\* self._lock.wait: the timeout elapsed before any notify_all
WaitTimedOut ==
    /\ t_pc = "waiting" /\ Len(lifecycle) = t_len /\ t_timeout # 0
    /\ t_pc' = "timed_out"
    /\ UNCHANGED <<t_phase_id, t_run_state, t_timeout, t_none_phase, t_len, t_ret,
                   t_at_call, t_at_return>>
    /\ UNCHANGED <<pvars, bvars, qvars, svars, avars, wvars, nvars, rvars, evars>>

\* wait returned True with the lock taken again: the test of the selectors,
\* then the next round of the loop
WaitWoken ==
    /\ t_pc = "notified"
    /\ IF t_phase_id = NoPhase /\ ~RunStateGiven(t_run_state)
         THEN /\ WaitReturn("True", FALSE)
              /\ UNCHANGED t_len
         ELSE WaitScan(t_phase_id, t_run_state, t_none_phase)
    /\ UNCHANGED <<t_phase_id, t_run_state, t_timeout, t_none_phase, t_at_call>>
    /\ UNCHANGED <<pvars, bvars, qvars, svars, avars, wvars, nvars, rvars, evars>>

\* wait returned False with the lock taken again: return False
WaitGaveUp ==
    /\ t_pc = "timed_out"
    /\ WaitReturn("False", TRUE)
    /\ UNCHANGED <<t_phase_id, t_run_state, t_timeout, t_none_phase, t_len, t_at_call>>
    /\ UNCHANGED <<pvars, bvars, qvars, svars, avars, wvars, nvars, rvars, evars>>

PhaseIdSelectors == {NoPhase, NPhases}
RunStateSelectors == {"NONE", "EXECUTING"}

TransitionNext ==
    \/ PhaserNext
    \/ \E phase_id \in PhaseIdSelectors, state \in RunStateSelectors,
          timeout \in Timeouts, none_phase \in {NoPhase} \cup DeclaredPhases :
            WaitForTransition(phase_id, state, timeout, none_phase)
    \/ WaitNotified \/ WaitTimedOut \/ WaitWoken \/ WaitGaveUp

----------------------------------------------------------------------------
(***************************************************************************)
(* Event dispatchers (src/runtools/runjob/events.py): the observer calls   *)
(* of a TransitionDispatcher and an OutputDispatcher, each sending one     *)
(* datagram per listener socket                                            *)
(***************************************************************************)
Listeners == 1..NListeners
\* what sending the datagram to one listener socket does
SendOutcomes == {"sent", "too_large", "failed"}
EventTypes == {"new_instance_transition", "new_instance_output"}
NoEvent == [event_type |-> "none", outcomes |-> <<>>]

\* SocketClient.communicate from listener i on: a listener whose transport
\* fails is passed over, a rejected payload raises PayloadTooLarge
RECURSIVE CommunicateFrom(_, _, _)
CommunicateFrom(outcomes, i, reached) ==
    IF i > Len(outcomes) THEN [raised |-> "None", delivered |-> reached]
    ELSE IF outcomes[i] = "too_large"
      THEN [raised |-> "PayloadTooLarge", delivered |-> reached]
    ELSE IF outcomes[i] = "failed" THEN CommunicateFrom(outcomes, i + 1, reached)
    ELSE CommunicateFrom(outcomes, i + 1, reached \cup {i})

communicate(outcomes) == CommunicateFrom(outcomes, 1, {})

\* _send_event without its except clause
MutCaughtNothing(exception) == FALSE

\* EventDispatcher._send_event: except PayloadTooLarge
Caught(exception) == exception = "PayloadTooLarge"

EventsInit ==
    /\ ev_calls = 0
    /\ ev_ret = "none"
    /\ ev_received = [l \in Listeners |-> <<>>]
    /\ ev_warnings = 0
    /\ ev_last = NoEvent

\* EventDispatcher._send_event
_send_event(event_type, outcomes) ==
    /\ ev_calls < MaxEvents
    /\ ev_calls' = ev_calls + 1
    /\ \E sent \in {communicate(outcomes)} :
         /\ ev_received' = [l \in Listeners |->
                              IF l \in sent.delivered
                                THEN Append(ev_received[l], event_type)
                                ELSE ev_received[l]]
         /\ IF sent.raised = "None"
              THEN ev_ret' = "returned" /\ UNCHANGED ev_warnings
            ELSE IF Caught(sent.raised)
              THEN ev_ret' = "returned" /\ ev_warnings' = ev_warnings + 1
            ELSE ev_ret' = sent.raised /\ UNCHANGED ev_warnings
    /\ ev_last' = [event_type |-> event_type, outcomes |-> outcomes]
    /\ UNCHANGED <<pvars, bvars, qvars, svars, avars, wvars, nvars, rvars, tvars>>

\* TransitionDispatcher.new_instance_transition
new_instance_transition(outcomes) == _send_event("new_instance_transition", outcomes)

\* OutputDispatcher.new_instance_output
new_instance_output(outcomes) == _send_event("new_instance_output", outcomes)

EventsNext ==
    \E outcomes \in [Listeners -> SendOutcomes] :
        \/ new_instance_transition(outcomes)
        \/ new_instance_output(outcomes)

Init ==
    /\ PhaserInit /\ BasePhaseInit /\ QueueInit /\ SequentialInit /\ ApprovalInit
    /\ WaitingInit /\ NoOverlapInit /\ ApiInit /\ WaitInit /\ EventsInit
Next == PhaserNext
Spec == Init /\ [][Next]_vars
SpecPhase == Init /\ [][BasePhaseNext]_vars
SpecObservers == Init /\ [][ObservedPhaseNext]_vars
SpecSequential == Init /\ [][SequentialNext]_vars
SpecApproval == Init /\ [][ApprovalNext]_vars
SpecQueue == Init /\ [][QueueNext]_vars
SpecWaiting == Init /\ [][WaitingNext]_vars
SpecNoOverlap == Init /\ [][NoOverlapNext]_vars
SpecApi == Init /\ [][ApiNext]_vars
SpecTransition == Init /\ [][TransitionNext]_vars
SpecEvents == Init /\ [][EventsNext]_vars

\* WaitingPhase with scheduling: a thread that can take its next step takes it
\* (the run() thread after its call, a listener callback, a stop() call that
\* has begun); calls, results and timeouts come when the environment makes them
WaitingFairness ==
    /\ WF_vars(WaitingRegister) /\ WF_vars(WaitingWaitSet) /\ WF_vars(WaitingSetTimeout)
    /\ WF_vars(WaitingStopAll) /\ WF_vars(WaitingTest) /\ WF_vars(WaitingStopSet)
    /\ \A c \in Conditions : WF_vars(ObserverScan(c)) /\ WF_vars(ObserverSet(c))
SpecWaitingLive == Init /\ [][EarlyWaitingNext]_vars /\ WaitingFairness

\* stop() against the blocking phases: one behaviour follows one object, an
\* ApprovalPhase, a WaitingPhase, the peers of an ExecutionQueue, or a Phaser
\* whose phases block; the other objects stay as constructed
StoppingNext ==
    \/ (WaitingInit /\ QueueInit /\ PhaserInit /\ ApprovalNext)
    \/ (ApprovalInit /\ QueueInit /\ PhaserInit /\ WaitingNext)
    \/ (ApprovalInit /\ WaitingInit /\ PhaserInit /\ QueueNext)
    \/ (ApprovalInit /\ WaitingInit /\ QueueInit /\ PhaserNext)

\* ApprovalPhase with scheduling: the run() thread after its call and a stop()
\* call that has begun take their next step; approve, the timeout and the
\* calls themselves come when the environment makes them
ApprovalFairness ==
    WF_vars(ApprovalWaitSet) /\ WF_vars(ApprovalTest) /\ WF_vars(ApprovalStopSet)

\* ExecutionQueue with scheduling: every run() thread takes its next step and
\* the Phaser goes on once run() has returned; stop, the transitions of the
\* other instances and their events come when the environment makes them
QueueFairness ==
    \A p \in Peers :
        /\ WF_vars(Guard(p)) /\ WF_vars(DispatchBegin(p)) /\ WF_vars(DispatchSignal(p))
        /\ WF_vars(Advance(p))

\* Phaser with scheduling: the run() thread and a stop() call that has begun
\* take their next step; phase.run returns for sure only once stop() has been
\* called on that phase
PhaserFairness ==
    /\ WF_vars(RunStart) /\ WF_vars(LoopHead) /\ WF_vars(LoopHook)
    /\ WF_vars(Finish) /\ WF_vars(FinalHook)
    /\ WF_vars(StopPhase) /\ WF_vars(StopHook)
    /\ WF_vars(idx \in stopSignalled /\ RunPhase)

SpecStopping ==
    /\ Init /\ [][StoppingNext]_vars
    /\ ApprovalFairness /\ WaitingFairness /\ QueueFairness /\ PhaserFairness
----------------------------------------------------------------------------
(***************************************************************************)
(* Phaser: properties                                                      *)
(***************************************************************************)
Terminated == termination_info # NoTermInfo
Last(seq) == seq[Len(seq)]
NoDuplicates(seq) == \A i, j \in 1..Len(seq) : seq[i] = seq[j] => i = j
\* seq is <<1, 2, ..., k>> for some k <= NPhases
DeclaredPrefix(seq) == Len(seq) <= NPhases /\ \A i \in 1..Len(seq) : seq[i] = i
Middle(seq) == SubSeq(seq, 2, Len(seq) - 1)
\* no declared phase after phase p is in the lifecycle
NoneEnteredAfter(p) ==
    \A i \in 1..Len(lifecycle) : lifecycle[i] \in DeclaredPhases => lifecycle[i] <= p
StopTermInfo(snap) == _term_info(StopStatusOf(snap.phase), FALSE, FALSE)

\* C1 (as claimed): whenever termination_info is set, the lifecycle starts
\* with 'init', ends with 'terminal', has no phase id twice, and the entries
\* between are a prefix of the declared phases in declaration order.
C1_LifecycleFramedAsClaimed ==
    Terminated =>
        /\ Len(lifecycle) >= 2
        /\ lifecycle[1] = InitId
        /\ Last(lifecycle) = TerminalId
        /\ NoDuplicates(lifecycle)
        /\ DeclaredPrefix(Middle(lifecycle))

\* C1 (amended): whenever termination_info is set, the lifecycle ends with
\* 'terminal' and has no phase id twice; if stop() took the lock before any
\* prime() the lifecycle is just <<terminal>>, otherwise it starts with 'init'
\* and the entries between are a prefix of the declared phases in order.
C1_LifecycleFramed ==
    Terminated =>
        /\ Len(lifecycle) >= 1
        /\ Last(lifecycle) = TerminalId
        /\ NoDuplicates(lifecycle)
        /\ IF stopBeforePrime
             THEN lifecycle = <<TerminalId>>
             ELSE /\ Len(lifecycle) >= 2
                  /\ lifecycle[1] = InitId
                  /\ DeclaredPrefix(Middle(lifecycle))

\* a run stopped inside its first phase has ended: <<init, 1, terminal>>
C1_Witness ==
    /\ Terminated /\ ~stopBeforePrime /\ loopEnded
    /\ stopSnaps # <<>> /\ lifecycle = <<InitId, 1, TerminalId>>

\* C3: for every stop() that took the lock while the run was started and
\* phase P current: nothing but 'terminal' is appended to the lifecycle
\* afterwards, and the final termination status is P.stop_status.
C3_StopEndsAtCurrentPhase ==
    \A k \in 1..Len(stopSnaps) :
        LET snap == stopSnaps[k] IN
        snap.wasStarted =>
            /\ Len(lifecycle) <= snap.len + 1
            /\ Len(lifecycle) = snap.len + 1 => Last(lifecycle) = TerminalId
            /\ NoneEnteredAfter(snap.phase)
            /\ Terminated => termination_info.status = StopStatusOf(snap.phase)

\* stop() hit the first declared phase (an approval-like phase) of a started
\* run, the phase then failed on its own, and the run ended CANCELLED
C3_Witness ==
    /\ Terminated /\ stopSnaps # <<>>
    /\ stopSnaps[1].wasStarted /\ stopSnaps[1].phase = 1
    /\ lastOutcome.phase = 1 /\ lastOutcome.outcome.kind = "TerminateRun"
    /\ termination_info.status = "CANCELLED"

\* C4 (as claimed): when the loop has ended, termination_info is the
\* termination captured from the failing phase if there is one, otherwise the
\* one derived from the stop status, otherwise COMPLETED.
C4_CapturedWinsAsClaimed ==
    loopEnded =>
        termination_info =
            IF captured # NoTermInfo THEN captured
            ELSE IF stopSnaps # <<>> THEN StopTermInfo(stopSnaps[1])
            ELSE _term_info("COMPLETED", FALSE, FALSE)

\* C4 (amended): when the loop has ended, termination_info is the one derived
\* from the stop status if stop() took effect before the loop ended, otherwise
\* the termination captured from the failing phase if there is one, otherwise
\* COMPLETED.
C4_StopWins ==
    loopEnded =>
        termination_info =
            IF stopSnaps # <<>> THEN StopTermInfo(stopSnaps[1])
            ELSE IF captured # NoTermInfo THEN captured
            ELSE _term_info("COMPLETED", FALSE, FALSE)

\* the loop ended with both a captured termination and an effective stop()
C4_Witness ==
    /\ loopEnded /\ stopSnaps # <<>>
    /\ captured # NoTermInfo /\ captured.status = "ERROR"

\* C5 (as claimed): after a phase raised a generic exception, no later phase
\* is entered, the termination is ERROR with the fault attached, and run()
\* raises PhaseCompletionError, only after termination_info is set and
\* 'terminal' is appended.
C5_ErrorAsClaimed ==
    lastOutcome.outcome.kind = "Exception" =>
        /\ NoneEnteredAfter(lastOutcome.phase)
        /\ loopEnded => termination_info = _term_info("ERROR", FALSE, TRUE)
        /\ loopRet # "none" =>
              loopRet = "PhaseCompletionError" /\ Terminated /\ Last(lifecycle) = TerminalId

\* C5 (amended): as claimed, except that the termination is the one derived
\* from the stop status (without the fault) when stop() took effect before
\* the loop ended.
C5_ErrorUnlessStopped ==
    lastOutcome.outcome.kind = "Exception" =>
        /\ NoneEnteredAfter(lastOutcome.phase)
        /\ loopEnded =>
              termination_info =
                  IF stopSnaps # <<>> THEN StopTermInfo(stopSnaps[1])
                  ELSE _term_info("ERROR", FALSE, TRUE)
        /\ loopRet # "none" =>
              loopRet = "PhaseCompletionError" /\ Terminated /\ Last(lifecycle) = TerminalId

\* the first of the declared phases raised, nobody stopped, run() has raised
C5_Witness ==
    /\ lastOutcome.outcome.kind = "Exception" /\ lastOutcome.phase = 1
    /\ stops = 0 /\ loopRet = "PhaseCompletionError"
    /\ termination_info.status = "ERROR"

\* C6: after a phase raised TerminateRun(status), with stop() never called:
\* no later phase is entered, the final termination status is that status,
\* the lifecycle ends with 'terminal' and run() returns without raising.
C6_TerminateRunStatus ==
    (lastOutcome.outcome.kind = "TerminateRun" /\ stops = 0) =>
        /\ NoneEnteredAfter(lastOutcome.phase)
        /\ loopEnded =>
              /\ termination_info = _term_info(lastOutcome.outcome.status, FALSE, FALSE)
              /\ Last(lifecycle) = TerminalId
        /\ loopRet # "none" => loopRet = "returned"

\* the first declared phase raised TerminateRun(TIMEOUT) and run() returned
C6_Witness ==
    /\ lastOutcome.outcome.kind = "TerminateRun" /\ lastOutcome.outcome.status = "TIMEOUT"
    /\ lastOutcome.phase = 1 /\ stops = 0
    /\ loopRet = "returned" /\ termination_info.status = "TIMEOUT"

\* C7: a stop() call made after an earlier stop() call returned changes
\* nothing: the Phaser's state (termination_info, stop status, abort flag,
\* lifecycle, current phase) and the hook invocations stay as they are in
\* every step of the later call.
C7_StopIdempotent ==
    [][ ( \/ (spc = "idle" /\ stops >= 1 /\ stops' = stops + 1)
          \/ (spc # "idle" /\ stops >= 2 /\ spc' # spc) )
        => UNCHANGED <<phaserState, hookLog>> ]_vars

\* two stop() calls both went past the termination test, and both returned
C7_Witness == stops >= 2 /\ spc = "idle" /\ Len(stopSnaps) >= 2

\* C8: once stop() took the lock before any prime(): the Phaser is aborted,
\* termination_info is STOPPED, the lifecycle is <<terminal>>, the hook is
\* called once (by that stop()), a later prime() returns without error and
\* a later run() runs no phase.
C8_StopBeforePrime ==
    stopBeforePrime =>
        /\ abort
        /\ termination_info = _term_info("STOPPED", FALSE, FALSE)
        /\ lifecycle = <<TerminalId>>
        /\ current_phase = TerminalId
        /\ ran = {} /\ ~started
        /\ hookLog \in {<<>>, << <<NoPhase, TerminalId, 1>> >>}
        /\ (stopSnaps # <<>> /\ (spc = "idle" \/ stops >= 2)) => Len(hookLog) = 1
        /\ (lastOp = "prime" /\ dpc = "idle") => ret = "returned"
        /\ dpc \in {"idle", "run_start"}

\* stop() came first, then prime() and run() were both called and returned
C8_Witness ==
    /\ stopBeforePrime /\ primeCalls >= 1 /\ runCall.n >= 1
    /\ lastOp = "run" /\ dpc = "idle" /\ ret = "returned"

\* C9 (as claimed): a run() call made when no prime() call was made before
\* it, or when the run had already been started, ends with InvalidStateError
\* and runs no phase.
C9_RunInvalidStateAsClaimed ==
    (lastOp = "run" /\ dpc = "idle" /\ (~runCall.primed \/ runCall.wasStarted)) =>
        /\ ret = "InvalidStateError"
        /\ ran = runCall.ran

----------------------------------------------------------------------------
(***************************************************************************)
(* BasePhase: properties                                                   *)
(***************************************************************************)
\* C10 (as claimed): run() leaves termination set on every exit path, and a
\* termination that is set is never changed by a later step on the phase.
C10_TerminationSetOnce ==
    [][ /\ (bpc = "finally" /\ bpc' = "idle") => termination' # NoPhaseTerm
        /\ termination # NoPhaseTerm => termination' = termination ]_vars

Interrupts == {"KeyboardInterrupt", "SystemExit"}
RunReturned == bpc = "idle" /\ lastRun # NoRun
IsPrefix(seq, of) == Len(seq) <= Len(of) /\ \A i \in 1..Len(seq) : seq[i] = of[i]

\* C11: when run() has ended, the termination status is COMPLETED if _run
\* returned, the status of the ExecutionTerminated it raised, FAILED with a
\* fault of category UNCAUGHT_PHASE_RUN_EXCEPTION for any other Exception,
\* INTERRUPTED for KeyboardInterrupt or SystemExit; in the last case stop()
\* was called once by the time the finally block records the termination.
C11_RunClassifiesOutcome ==
    /\ RunReturned =>
          CASE lastRun.kind = "return" -> termination.status = "COMPLETED"
            [] lastRun.kind = "ExecutionTerminated" -> termination.status = lastRun.status
            [] lastRun.kind = "Exception" ->
                 termination = PhaseTermInfo("FAILED", "UNCAUGHT_PHASE_RUN_EXCEPTION")
            [] lastRun.kind \in Interrupts -> termination.status = "INTERRUPTED"
    /\ (bpc = "finally" /\ lastRun.kind \in Interrupts) => stop_calls = stopsBefore + 1
    /\ (bpc = "finally" /\ lastRun.kind \notin Interrupts) => stop_calls = stopsBefore

\* _run was interrupted from the keyboard, stop() was called, run() ended
C11_Witness ==
    /\ RunReturned /\ lastRun.kind = "KeyboardInterrupt"
    /\ termination.status = "INTERRUPTED" /\ stop_calls = stopsBefore + 1

\* C12 (as claimed): when _run raised ExecutionTerminated or another
\* Exception, what run() raises to its caller is PhaseCompletionError; when
\* _run raised KeyboardInterrupt or SystemExit, run() raises that signal.
C12_PropagatesPhaseCompletionError ==
    RunReturned =>
        /\ lastRun.kind \in {"ExecutionTerminated", "Exception"} =>
              bret = "PhaseCompletionError"
        /\ lastRun.kind \in Interrupts => bret = lastRun.kind

\* C13 (as claimed): at every instant, the stages each observer has received
\* are a prefix of <<RUNNING, ENDED>>, and an observer that has received
\* ENDED sees the termination set.
C13_DeliveredPrefix ==
    \A o \in Obs :
        /\ IsPrefix(delivered[o], <<"RUNNING", "ENDED">>)
        /\ (\E i \in 1..Len(delivered[o]) : delivered[o][i] = "ENDED") =>
              termination # NoPhaseTerm

\* C14 (as claimed): a call add_phase_observer(obs, replay_last_update=True)
\* hands exactly one update, with the lifecycle-derived stage, to obs, and
\* nothing to the observers registered before the call.
C14_ReplayOnlyToNewObserver ==
    [][ (adds' = adds + 1 /\ lastAdd'.replay) =>
            /\ delivered'[lastAdd'.obs] = Append(delivered[lastAdd'.obs], lastAdd'.stage)
            /\ \A o \in lastAdd'.earlier : delivered'[o] = delivered[o] ]_vars

----------------------------------------------------------------------------
(***************************************************************************)
(* SequentialPhase: properties                                             *)
(***************************************************************************)
SeqDone == seq_pc = "done"
Ended(c) == child_termination[c] # NoPhaseTerm

\* C15 (as claimed): when run() of the SequentialPhase has ended and a child
\* ended with a status S other than COMPLETED, no child after it was run and
\* the termination status of the SequentialPhase is S.
C15_ChildStatusBecomesOwn ==
    SeqDone =>
        \A c \in Children :
            (Ended(c) /\ child_termination[c].status # "COMPLETED") =>
                /\ \A d \in children_run : d <= c
                /\ seq_termination.status = child_termination[c].status

\* C16 (as claimed): for every stop() call that has returned or raised, the
\* children run are among those made current by the time of the call, and the
\* child that was current at the call has received stop(); and when the stop
\* test before a child found the flag set, the SequentialPhase terminates
\* with status STOPPED.
C16_StopSequential ==
    /\ \A k \in 1..Len(seq_snaps) :
          LET snap == seq_snaps[k] IN
          (k < Len(seq_snaps) \/ seq_spc = "idle") =>
              /\ children_run \subseteq snap.made
              /\ snap.current # NoChild =>
                    snap.forwarded = snap.current /\ snap.current \in children_stopped
    /\ (seq_raised_stopped /\ SeqDone) => seq_termination.status = "STOPPED"

----------------------------------------------------------------------------
(***************************************************************************)
(* ApprovalPhase: properties                                               *)
(***************************************************************************)
\* C20: when run() has ended it has returned or raised TerminateRun(TIMEOUT):
\* it returned if the wait was released and stop() had not set its flag; it
\* returned if stop() had set its flag by the test after the wait, whatever
\* else happened; it raised only if the timeout elapsed before any approve()
\* or stop() call, and stop() had not set its flag by the test.
C20_ApprovalOutcomes ==
    ap_pc = "done" =>
        /\ ap_ret \in {"returned", "TerminateRun"}
        /\ (approved /\ ~ap_stop_seen) => ap_ret = "returned"
        /\ ap_stop_seen => ap_ret = "returned"
        /\ ap_ret = "TerminateRun" =>
              /\ ap_timeout # 0 /\ ap_at_timeout.elapsed
              /\ ap_at_timeout.approves = 0 /\ ~ap_at_timeout.stop_called
              /\ ~ap_stop_seen

\* the timeout elapsed, stop() was called before the test and run() returned
C20_Witness ==
    /\ ap_pc = "done" /\ ap_at_timeout.elapsed /\ ~ap_at_timeout.stop_called
    /\ ap_stop_seen /\ ap_ret = "returned"

----------------------------------------------------------------------------
(***************************************************************************)
(* ExecutionQueue: properties                                              *)
(***************************************************************************)
\* runs that were dispatched and have not left the protected phase: still in
\* the queue phase of their lifecycle, or executing
DispatchedNotEnded ==
    {p \in Peers : /\ qstate[p] = "DISPATCHED"
                   /\ run_state[p] \in {"IN_QUEUE", "EXECUTING"}
                   /\ ~stop_requested[p]}

\* C2 (as claimed): at no instant do more than max_executions runs count as
\* dispatched and not yet out of the protected phase, a dispatched run whose
\* lifecycle is still in the queue phase included.
C2_MaxExecutionsNeverExceeded == Cardinality(DispatchedNotEnded) <= MaxExecutions

\* C17 (as claimed, with NPeers = 3 instances and max_executions = 2): as
\* long as no run was stopped and none has left its protected phase, at most
\* two of the three are dispatched, so that the third stays IN_QUEUE.
C17_ThirdStaysQueued ==
    (\A p \in Peers : ~stop_requested[p] /\ run_state[p] # "ENDED") =>
        Cardinality({p \in Peers : qstate[p] = "DISPATCHED"}) <= MaxExecutions

\* C18 (as claimed): at every instant, at most one of the waiters sharing the
\* queue id has _current_wait set and its transition listener started.
C18_OneActiveScheduler ==
    Cardinality({p \in Peers : current_wait[p] /\ state_receiver[p]}) <= 1

\* a step of _dispatch_next that calls signal_dispatch() on the head of the
\* queued runs, and a step of stop()
SignalStep == queued # <<>> /\ queued' # queued
StopStep(p) == ~stop_requested[p] /\ stop_requested'[p]

\* C19 (as claimed): every change of a waiter's state is NONE -> IN_QUEUE,
\* IN_QUEUE -> DISPATCHED or IN_QUEUE -> CANCELLED; signal_dispatch() returns
\* true exactly when the state was IN_QUEUE, leaving DISPATCHED, and
\* otherwise changes nothing; stop() on a dequeued state changes nothing.
C19_QueuedStateMachineAsClaimed ==
    [][ /\ \A p \in Peers :
              qstate'[p] # qstate[p] =>
                  <<qstate[p], qstate'[p]>> \in
                      {<<"NONE", "IN_QUEUE">>, <<"IN_QUEUE", "DISPATCHED">>,
                       <<"IN_QUEUE", "CANCELLED">>}
        /\ SignalStep =>
              LET t == Head(queued) IN
              /\ signalled'.target = t
              /\ signalled'.executed = (qstate[t] = "IN_QUEUE")
              /\ qstate'[t] = IF signalled'.executed THEN "DISPATCHED" ELSE qstate[t]
        /\ \A p \in Peers :
              (StopStep(p) /\ qstate[p] \in {"DISPATCHED", "CANCELLED"}) =>
                  qstate' = qstate ]_vars

\* C19 (amended): every change of a waiter's state is NONE -> IN_QUEUE, or
\* from NONE or IN_QUEUE to DISPATCHED or CANCELLED, so a dequeued state is
\* never left; signal_dispatch() returns true exactly when the state was not
\* dequeued (NONE or IN_QUEUE), leaving DISPATCHED, and otherwise changes
\* nothing; stop() on a dequeued state changes nothing.
C19_QueuedStateMachine ==
    [][ /\ \A p \in Peers :
              qstate'[p] # qstate[p] =>
                  <<qstate[p], qstate'[p]>> \in
                      {<<"NONE", "IN_QUEUE">>, <<"IN_QUEUE", "DISPATCHED">>,
                       <<"IN_QUEUE", "CANCELLED">>, <<"NONE", "DISPATCHED">>,
                       <<"NONE", "CANCELLED">>}
        /\ SignalStep =>
              LET t == Head(queued) IN
              /\ signalled'.target = t
              /\ signalled'.executed = (qstate[t] \in {"NONE", "IN_QUEUE"})
              /\ qstate'[t] = IF signalled'.executed THEN "DISPATCHED" ELSE qstate[t]
        /\ \A p \in Peers :
              (StopStep(p) /\ qstate[p] \in {"DISPATCHED", "CANCELLED"}) =>
                  qstate' = qstate ]_vars

\* signal_dispatch() returned false on a cancelled waiter, and stop() was
\* called on a waiter that stays DISPATCHED
C19_Witness ==
    /\ signalled.target # 0 /\ ~signalled.executed
    /\ qstate[signalled.target] = "CANCELLED"
    /\ \E p \in Peers : stop_requested[p] /\ qstate[p] = "DISPATCHED"

----------------------------------------------------------------------------
(***************************************************************************)
(* WaitingPhase: properties                                                *)
(***************************************************************************)
WaitingDone == w_pc = "done"
AllStopped == \A c \in 1..w_count : cond_stopped[c]
AllSucceeded == \A c \in 1..w_count : ResultSuccess(cond_result[c])

\* C21: a run() that was never stopped ends in one of three ways, each with
\* stop() called on every condition: it raises TerminateRun(UNSATISFIED) when
\* the latch was released with some condition at a non-success result, it
\* returns only with every condition at a success result, and it raises
\* TerminateRun(TIMEOUT) when the wait timed out.
C21_WaitingOutcomes ==
    (WaitingDone /\ ~WaitStopCalled) =>
        /\ AllStopped
        /\ w_ret \in {"returned", "UNSATISFIED", "TIMEOUT"}
        /\ w_ret = "returned" => AllSucceeded
        /\ (w_resolved = "released" /\ w_failed_at_release) => w_ret = "UNSATISFIED"
        /\ w_resolved = "timeout" => w_ret = "TIMEOUT"

\* C22: when the first stop() found run() blocked, no condition failed and no
\* timeout, and the wait then returned without a timeout, run() returns
\* without raising TerminateRun, whatever the conditions deliver meanwhile.
C22_StopReleasesWithoutStatus ==
    (/\ WaitingDone
     /\ w_stop_found.called /\ w_stop_found.blocked
     /\ ~w_stop_found.failed /\ ~w_stop_found.timed_out
     /\ w_resolved = "released") =>
        w_ret = "returned"

----------------------------------------------------------------------------
(***************************************************************************)
(* NoOverlapPhase: properties                                              *)
(***************************************************************************)
OverlapRunEnded(r) == noo_ret[r] # "none"

\* C23: a run makes its query only while it holds the lock; it raises
\* TerminateRun(OVERLAP) when the query found another run in the protected
\* no_overlap phase and returns otherwise; and a run whose run() has returned
\* or raised does not hold the lock, which is held by at most the one run
\* that is between acquiring it and leaving the with block.
C23_CheckUnderLock ==
    /\ \A r \in OverlapRuns :
          /\ noo_pc[r] \in {"checked", "completed", "protected", "ended"} =>
                noo_holder_at_check[r] = r
          /\ OverlapRunEnded(r) =>
                /\ noo_lock # r
                /\ noo_ret[r] = "OVERLAP" <=> noo_seen[r] # {}
                /\ noo_ret[r] = "returned" <=> noo_seen[r] = {}
          /\ noo_lock = r <=> noo_pc[r] \in {"locked", "checked"}
    /\ noo_lock = NoLockHolder =>
          \A r \in OverlapRuns : noo_pc[r] \notin {"locked", "checked"}

\* one run completed its check and is protected, a second one found it and
\* raised OVERLAP, and the lock is free again
C23_Witness ==
    \E r, o \in OverlapRuns :
        /\ noo_ret[r] = "OVERLAP" /\ o \in noo_seen[r]
        /\ noo_ret[o] = "returned"
        /\ noo_lock = NoLockHolder

----------------------------------------------------------------------------
(***************************************************************************)
(* APIServer: properties                                                   *)
(***************************************************************************)
Handled == api_calls > 0
\* a JSON-RPC 2.0 request: version "2.0", a method name, params a mapping or
\* a sequence when present, id a string or a number when present
WellFormed(req) ==
    /\ req.form = "object"
    /\ req.jsonrpc = JStr("2.0")
    /\ req.method.t = "str"
    /\ req.params.t \in {"absent", "dict", "list"}
    /\ req.id.t \in {"absent", "null", "str", "int"}
HasIdValue(req) == req.id.t \in {"str", "int"}
ErrorWith(code) == last_resp.has_error /\ ~last_resp.has_result /\ last_resp.code = code
ResultIs(kind, val) ==
    last_resp.has_result /\ ~last_resp.has_error /\ last_resp.result = Result(kind, val)
InstanceKind(req) ==
    req.method.t = "str" /\ req.method.v \in MethodNames
    /\ MethodType(req.method.v) = "INSTANCE"
Untouched == inst_stops = before.stops /\ inst_term = before.term

\* C24: the response to a well-formed request carries the request's id
\* whenever the request has an id value (0 and "" included), omits id only
\* when the request has none, and has exactly one of result and error.
C24_IdEchoed ==
    (Handled /\ WellFormed(last_req)) =>
        /\ last_resp.raised = "none"
        /\ HasIdValue(last_req) => (last_resp.has_id /\ last_resp.id = last_req.id)
        /\ ~last_resp.has_id => ~HasIdValue(last_req)
        /\ last_resp.has_result # last_resp.has_error

\* C25: handle() raises for no request string: it always returns a response
\* with a result or an error.
C25_HandleNeverRaises ==
    Handled =>
        /\ last_resp.raised = "none"
        /\ last_resp.has_result \/ last_resp.has_error

\* the value a request gives for the i-th parameter of its method
GivenArgument(req, i) ==
    IF req.params.t = "dict"
    THEN ArgumentOf(req.params, Parameters(req.method.v)[i].name)
    ELSE IF req.params.t = "list" /\ i <= Len(req.params.vals) THEN req.params.vals[i]
    ELSE JNull

\* C26: for the parameter list of every method and every params value the
\* request check accepts, validate_params returns one value per parameter, in
\* declaration order, the given value or the default, or it raises
\* JsonRpcError(INVALID_PARAMS); it ends in no other way.
C26_ValidateParamsTotal ==
    (Handled /\ validated # NotValidated) =>
        \/ /\ validated.exc = "none"
           /\ Len(validated.args) = Len(Parameters(last_req.method.v))
           /\ \A i \in DOMAIN validated.args :
                 validated.args[i] =
                    IF GivenArgument(last_req, i) # JNull THEN GivenArgument(last_req, i)
                    ELSE Parameters(last_req.method.v)[i].default
        \/ validated.exc = "JsonRpcError" /\ validated.code = INVALID_PARAMS

\* the last request was exec_phase_control and PhaseControlMethod.execute ran
PhaseControlExecuted ==
    /\ Handled /\ last_req.method = JStr("exec_phase_control")
    /\ validated.exc = "none" /\ executed_on # NoInstance

C29_GetInstancesSucceeds ==
    (/\ Handled /\ last_req.method = JStr("get_instances")
     /\ DOMAIN job_instances = RegisteredIds
     /\ last_req.params \in {Mapping(<<"run_match">>, <<c>>) : c \in {JDict("{}"), JDict("j1")}}) =>
        last_resp.has_result /\ ~last_resp.has_error

\* the last request was a valid stop_instance for a registered instance
StopExecuted ==
    /\ Handled /\ last_req.method = JStr("stop_instance")
    /\ validated.exc = "none" /\ registered_then # NoInstance

\* C30: stop_instance for a registered id returns {stop_result:
\* STOP_INITIATED}; stop() is called once on the instance registered under
\* the id and on no other instance; the addressed instance has a stop
\* termination afterwards and the termination of every other instance is as
\* it was.
C30_StopOnlyAddressed ==
    StopExecuted =>
        /\ ResultIs("stop_result", "STOP_INITIATED")
        /\ \A inst \in Instances :
              IF inst = registered_then
              THEN /\ inst_stops[inst] = before.stops[inst] + 1
                   /\ before.term[inst] = "NONE" => inst_term[inst] = "STOPPED"
              ELSE /\ inst_stops[inst] = before.stops[inst]
                   /\ inst_term[inst] = before.term[inst]

\* two instances are registered, one was stopped through the API and has
\* the termination STOPPED, the other has received no stop() and has none
C30_Witness ==
    /\ StopExecuted
    /\ \E other \in Instances \ {registered_then} :
          /\ InstanceIdOf(other) \in DOMAIN job_instances
          /\ job_instances[InstanceIdOf(other)] = other
          /\ inst_stops[other] = 0 /\ inst_term[other] = "NONE"
    /\ inst_stops[registered_then] = 1 /\ inst_term[registered_then] = "STOPPED"

----------------------------------------------------------------------------
(***************************************************************************)
(* Phaser: termination, hook calls and the final status                    *)
(***************************************************************************)
\* C36: between any two sections under the Phaser's lock, termination_info
\* is set exactly when the current phase is the TerminalPhase, and once
\* termination_info is set no step of any prime(), run() or stop() call
\* changes termination_info or the lifecycle.
C36_TerminationFinal ==
    /\ [](Terminated <=> current_phase = TerminalId)
    /\ [][Terminated => UNCHANGED <<termination_info, lifecycle>>]_vars

\* the run ended by itself; afterwards two stop() calls found it terminated
\* and a further prime() call was refused
C36_Witness ==
    /\ loopEnded /\ Terminated
    /\ stops = MaxStops /\ spc = "idle" /\ stopSnaps = <<>>
    /\ calls = MaxCalls /\ lastOp = "prime" /\ dpc = "idle" /\ ret = "InvalidStateError"

\* the hook calls that report each PhaseRun of the lifecycle once, in order
TransitionsOf(lc) ==
    [i \in 1..Len(lc) |-> <<IF i > 1 THEN lc[i - 1] ELSE NoPhase, lc[i], i>>]
\* a hook call is still to be made for a PhaseRun already appended
HookPending ==
    dpc \in {"prime_hook", "loop_hook", "final_hook"} \/ spc \in {"stop_phase", "stop_hook"}

\* C37 (as claimed): the hook calls made so far report the first PhaseRuns of
\* the lifecycle, one call each, in lifecycle order, with that PhaseRun as
\* current_run and its predecessor as previous_run; when no hook call is
\* pending every PhaseRun has been reported. This includes a stop() that
\* runs concurrently with prime() or run().
C37_HookOncePerTransition ==
    /\ IsPrefix(hookLog, TransitionsOf(lifecycle))
    /\ ~HookPending => hookLog = TransitionsOf(lifecycle)

\* every declared phase was entered and its run returned normally, and the
\* terminal transition is recorded
AllPhasesCompleted ==
    /\ loopEnded
    /\ ran = DeclaredPhases
    /\ lastOutcome.phase = NPhases /\ lastOutcome.outcome.kind = "return"

\* C38 (as claimed): when every declared phase was entered and returned
\* normally, the final termination status is COMPLETED, whatever stop() did
\* before the terminal transition was recorded.
C38_CompletedAsClaimed ==
    AllPhasesCompleted => termination_info.status = "COMPLETED"

\* C38 (amended): when every declared phase was entered and returned
\* normally, the final termination status is COMPLETED if no stop() call took
\* the lock before the terminal transition was recorded; otherwise it is the
\* stop status recorded by the last such call (the stop status of the last
\* phase), without failure or error.
C38_CompletedUnlessStopped ==
    AllPhasesCompleted =>
        termination_info =
            IF stopSnaps = <<>> THEN _term_info("COMPLETED", FALSE, FALSE)
            ELSE StopTermInfo(Last(stopSnaps))

\* stop() took the lock when the last phase had finished and the terminal
\* transition was not yet recorded
C38_Witness ==
    /\ AllPhasesCompleted
    /\ Len(stopSnaps) = 1
    /\ stopSnaps[1].ran = DeclaredPhases /\ stopSnaps[1].phase = NPhases
    /\ termination_info.status = "STOPPED"

----------------------------------------------------------------------------
(***************************************************************************)
(* Phaser.wait_for_transition: properties                                  *)
(***************************************************************************)
\* the lifecycle lc has a PhaseRun the given selectors ask for
SelectedRun(lc) ==
    \E i \in 1..Len(lc) :
        \/ t_phase_id # NoPhase /\ lc[i] = t_phase_id
        \/ RunStateGiven(t_run_state) /\ RunStateOf(lc[i], t_none_phase) = t_run_state

\* C32 (as claimed): a wait_for_transition call with a phase id or a run
\* state returns true exactly when the lifecycle, as it is at the return,
\* has a PhaseRun with that phase id or that run state, and returns false
\* only after its wait timed out; a call without selectors returns true only
\* after a transition that followed the call, and false only after a timeout.
C32_WaitForTransition ==
    t_pc = "done" =>
        /\ t_ret = "False" => t_at_return.timed_out
        /\ IF t_phase_id # NoPhase \/ RunStateGiven(t_run_state)
             THEN t_ret = "True" <=> SelectedRun(t_at_return.lifecycle)
             ELSE t_ret = "True" => Len(t_at_return.lifecycle) > Len(t_at_call)

----------------------------------------------------------------------------
----------------------------------------------------------------------------
(***************************************************************************)
(* ExecutionQueue: locks, one _dispatch_next call, listeners               *)
(***************************************************************************)
\* C34: a run() thread holds the queue lock only inside _dispatch_next; it
\* takes the lock only from the point after its wait-guard block, and it is
\* never blocked in self._wait_guard.wait(), nor inside the wait-guard block,
\* while it holds the queue lock.
C34_LockNotHeldWhileWaiting ==
    /\ [](\A p \in Peers : locker = p => qpc[p] = "dispatch")
    /\ [][\A p \in Peers :
            /\ (locker # p /\ locker' = p) => (qpc[p] = "lock" /\ locker = 0)
            /\ qpc'[p] \in {"waiting", "guard"} => locker' # p]_vars

\* a scheduler that has been through _dispatch_next is blocked in wait()
\* while another peer holds the queue lock
C34_Witness ==
    \E p, q \in Peers :
        /\ p # q
        /\ qpc[p] = "waiting" /\ current_wait[p] /\ signalled # NoSignal
        /\ locker = q /\ qpc[q] = "dispatch"

\* the signals of the last _dispatch_next call, and how many of the first k
\* of them were answered with executed = true
Signals == dispatch_call.signals
ExecutedAmong(k) == Cardinality({i \in 1..k : Signals[i].executed})
\* max_executions - E for the E executing runs that call found
FreeSlots == MaxExecutions - dispatch_call.executing

\* C35: a _dispatch_next call that finds E executing runs makes no signal
\* when max_executions - E <= 0; otherwise its signals go to queued runs in
\* strictly ascending created_at order, every signal but the last is made
\* with fewer than max_executions - E executed answers so far, the call is
\* over once that number is reached, and the executed answers of one call
\* never exceed max_executions - E.
C35_DispatchNextWithinSlots ==
    dispatch_call # NoDispatchCall =>
        /\ FreeSlots <= 0 => Signals = <<>>
        /\ \A i, j \in 1..Len(Signals) :
             i < j => CreatedAt(Signals[i].target) < CreatedAt(Signals[j].target)
        /\ \A k \in 1..Len(Signals) : ExecutedAmong(k - 1) < FreeSlots
        /\ ExecutedAmong(Len(Signals)) <= FreeSlots
        /\ (Signals # <<>> /\ ExecutedAmong(Len(Signals)) = FreeSlots) =>
             locker # dispatch_call.caller
        /\ locker = dispatch_call.caller =>
             \A i \in 1..Len(queued) : \A k \in 1..Len(Signals) :
                CreatedAt(Signals[k].target) < CreatedAt(queued[i])

\* a call that found one run executing signalled the older of two queued
\* runs, was answered executed = true, and was over with the younger run
\* still queued and not signalled
C35_Witness ==
    /\ FreeSlots = 1 /\ Len(Signals) = 1 /\ Signals[1].executed
    /\ locker # dispatch_call.caller
    /\ \E p \in Peers :
         /\ run_state[p] = "IN_QUEUE" /\ qstate[p] = "IN_QUEUE"
         /\ CreatedAt(p) > CreatedAt(Signals[1].target)

\* C39 (as claimed): once run() of a queue phase has returned, the phase's
\* state is DISPATCHED or CANCELLED, the state receiver it started as
\* scheduler is closed and _current_wait is false.
C39_NoListenerAfterRun ==
    \A p \in Peers :
        qpc[p] \in {"returned", "done"} =>
            /\ Dequeued(qstate[p])
            /\ ~state_receiver[p]
            /\ ~current_wait[p]

----------------------------------------------------------------------------
(***************************************************************************)
(* Blocking phases: termination                                            *)
(***************************************************************************)
\* every condition of the phase has produced a result
AllResults == \A c \in 1..w_count : ResultBool(cond_result[c])

\* C40 (as claimed): a run() without timeout, once every condition of the
\* phase has produced a result (no condition at all included, and results
\* produced before the listener was registered included), eventually ends;
\* and when it has ended with every result a success it has returned
\* without raising.
C40_EndsOnceAllResults ==
    /\ (w_pc # "idle" /\ w_timeout = 0 /\ AllResults) ~> WaitingDone
    /\ []((WaitingDone /\ w_timeout = 0 /\ AllResults /\ AllSucceeded) => w_ret = "returned")

\* the terminal phase is in the lifecycle
TerminalReached == \E i \in 1..Len(lifecycle) : lifecycle[i] = TerminalId
\* stop() has been called on the WaitingPhase
WaitingStopCalled == w_stops > 0 \/ w_spc = "set"
\* every run() that has been called on a phase whose stop() has been called is
\* over, and every Phaser whose stop() has been called is in the terminal phase
StopAnswered ==
    /\ (StopCalled /\ ap_pc # "idle") => ap_pc = "done"
    /\ (WaitingStopCalled /\ w_pc # "idle") => WaitingDone
    /\ \A p \in Peers : stop_requested[p] => (qpc[p] = "done" /\ run_state[p] = "ENDED")
    /\ stopSnaps # <<>> => TerminalReached
\* the calls and the ends are for good: a called stop() stays called, a run()
\* that is over stays over
StopAndEndStable ==
    /\ (StopCalled => StopCalled') /\ (ap_pc = "done" => ap_pc' = "done")
    /\ (WaitingStopCalled => WaitingStopCalled') /\ (WaitingDone => WaitingDone')
    /\ \A p \in Peers : /\ stop_requested[p] => stop_requested'[p]
                        /\ qpc[p] = "done" => qpc'[p] = "done"
                        /\ run_state[p] = "ENDED" => run_state'[p] = "ENDED"
    /\ (stopSnaps # <<>> => stopSnaps' # <<>>) /\ (TerminalReached => TerminalReached')

\* C31: a blocking coordination phase answers stop(): whenever stop() has
\* been called on an ApprovalPhase, a WaitingPhase or an ExecutionQueue whose
\* run() is called (stop() before run(), during the wait, or during
\* _dispatch_next), run() ends with no approve, condition result, dispatch
\* signal or timeout being needed, and a Phaser whose stop() has been called
\* reaches the terminal phase. Calls and ends are for good, so "always
\* eventually every stop is answered" says that each stop is answered.
C31_StopEndsRun == []<>StopAnswered /\ [][StopAndEndStable]_vars
\* stop() alone has ended a run() that was blocked: no approve, no timeout
C31_Witness ==
    /\ ap_pc = "done" /\ ap_stop_seen /\ ap_ret = "returned"
    /\ approves = 0 /\ ap_at_timeout = NoTimeout

====
